---------------------------- MODULE Spec2Model ----------------------------
(***************************************************************************)
(* k8s-netinspect: the command-line run (src/src/main.rs), the permission  *)
(* prober and input validators (src/src/validation.rs), the diagnosis      *)
(* orchestrator, CNI detector and connectivity tester                      *)
(* (src/src/commands/mod.rs) and the error taxonomy (src/src/errors.rs).   *)
(*                                                                         *)
(* Strings whose content the code inspects (annotation keys, runtime       *)
(* versions, names, addresses) are sequences of one-character strings, so  *)
(* that `contains` and the regular expressions are computed, not assumed.  *)
(***************************************************************************)
EXTENDS Integers, Sequences, FiniteSets, TLC

(***************************************************************************)
(* Bounds of the model.                                                    *)
(***************************************************************************)
\* longest node list the cluster returns
MaxNodes == 2
\* largest item count a counting list call returns
MaxItems == 1
\* largest retry budget the connectivity tester is run with on its own
MaxRetries == 4
\* longest verb list validate_specific_permission is called with
MaxVerbs == 2

(***************************************************************************)
(* Program constants.                                                      *)
(***************************************************************************)
\* test_pod's retry budget: test_connectivity_with_retries(pod_ip, 3)
TestPodAttempts == 3
\* backoff unit: Duration::from_millis(1000 * attempt)
BackoffUnitMs == 1000

(***************************************************************************)
(* Strings.                                                                *)
(***************************************************************************)
\* str::contains: sub occurs in s as a contiguous substring
Contains(s, sub) ==
    \E i \in 0..(Len(s) - Len(sub)) : SubSeq(s, i + 1, i + Len(sub)) = sub

S_calico == <<"c", "a", "l", "i", "c", "o">>
S_projectcalico == <<"p", "r", "o", "j", "e", "c", "t", "c", "a", "l", "i", "c", "o">>
S_flannel == <<"f", "l", "a", "n", "n", "e", "l">>
S_weave == <<"w", "e", "a", "v", "e">>
S_cilium == <<"c", "i", "l", "i", "u", "m">>
S_containerd == <<"c", "o", "n", "t", "a", "i", "n", "e", "r", "d">>
S_docker == <<"d", "o", "c", "k", "e", "r">>

\* annotation keys a node may carry
KeyCalico == <<"p", "r", "o", "j", "e", "c", "t", "c", "a", "l", "i", "c", "o", ".", "o", "r", "g", "/", "I", "P">>
KeyFlannel == <<"f", "l", "a", "n", "n", "e", "l", ".", "a", "l", "p", "h", "a", "/", "b", "a", "c", "k", "e", "n", "d">>
KeyWeave == <<"w", "e", "a", "v", "e", ".", "w", "o", "r", "k", "s", "/", "p", "e", "e", "r">>
KeyCilium == <<"i", "o", ".", "c", "i", "l", "i", "u", "m", ".", "n", "e", "t", "w", "o", "r", "k">>
KeyHostname == <<"k", "u", "b", "e", "r", "n", "e", "t", "e", "s", ".", "i", "o", "/", "h", "o", "s", "t", "n", "a", "m", "e">>

\* container runtime version strings
RtContainerd == <<"c", "o", "n", "t", "a", "i", "n", "e", "r", "d", ":", "/", "/", "1", ".", "6">>
RtDocker == <<"d", "o", "c", "k", "e", "r", ":", "/", "/", "2", "0">>
RtCrio == <<"c", "r", "i", "-", "o", ":", "/", "/", "1", ".", "2", "4">>

\* the k-th smallest element of a set of integers
KthOf(B, k) == CHOOSE b \in B : Cardinality({x \in B : x < b}) = k - 1

\* splits s at every occurrence of the character sep: part k lies between
\* the (k-1)-th and the k-th occurrence
SplitOn(s, sep) ==
    LET at == {i \in 1..Len(s) : s[i] = sep}
    IN [k \in 1..(Cardinality(at) + 1) |->
            SubSeq(s, KthOf({0} \cup at, k) + 1, KthOf(at \cup {Len(s) + 1}, k) - 1)]

Digits == {"0", "1", "2", "3", "4", "5", "6", "7", "8", "9"}
LowerAlnum ==
    {"a", "b", "c", "d", "e", "f", "g", "h", "i", "j", "k", "l", "m", "n", "o",
     "p", "q", "r", "s", "t", "u", "v", "w", "x", "y", "z"} \cup Digits
HexDigits == Digits \cup {"a", "b", "c", "d", "e", "f", "A", "B", "C", "D", "E", "F"}

(***************************************************************************)
(* Error taxonomy (errors.rs).                                             *)
(***************************************************************************)
ErrorKinds ==
    {"KubernetesConnection", "PermissionDenied", "Configuration",
     "NetworkConnectivity", "InvalidInput", "ResourceNotFound", "Timeout", "Runtime"}

\* NetInspectResult<()>: Ok(()), Err(kind(message)); Pending before the call returns.
\* code carries the status a message is formatted with, 0 if none.
Ok == [ok |-> TRUE, kind |-> "Ok", msg |-> "", code |-> 0]
Pending == [ok |-> FALSE, kind |-> "Pending", msg |-> "", code |-> 0]
Err(kind, msg) == [ok |-> FALSE, kind |-> kind, msg |-> msg, code |-> 0]
ErrCode(kind, msg, code) == [ok |-> FALSE, kind |-> kind, msg |-> msg, code |-> code]

\* exit_code with the Timeout arm giving the code of Runtime
exit_code_TimeoutAsRuntime(kind) ==
    CASE kind = "KubernetesConnection" -> 3
      [] kind = "PermissionDenied" -> 5
      [] kind = "Configuration" -> 2
      [] kind = "NetworkConnectivity" -> 4
      [] kind = "InvalidInput" -> 2
      [] kind = "ResourceNotFound" -> 4
      [] kind = "Timeout" -> 1
      [] kind = "Runtime" -> 1

\* NetInspectError::exit_code: a match on the variant, the message is not read
exit_code(kind) ==
    CASE kind = "KubernetesConnection" -> 3
      [] kind = "PermissionDenied" -> 5
      [] kind = "Configuration" -> 2
      [] kind = "NetworkConnectivity" -> 4
      [] kind = "InvalidInput" -> 2
      [] kind = "ResourceNotFound" -> 4
      [] kind = "Timeout" -> 4
      [] kind = "Runtime" -> 1

\* What a call to the control-plane API client answers: t = "ok", or a
\* kube::Error: "api" (with the status code), "http", "auth", "discovery",
\* "config" (any other variant, as Client::try_default gives); "timeout" is
\* the deadline of tokio::time::timeout elapsing first.
OkOut == [t |-> "ok", code |-> 200]
TimeoutOut == [t |-> "timeout", code |-> 0]
ConfigErr == [t |-> "config", code |-> 0]
ApiCodes == {401, 403, 404, 500}
KubeErrors ==
    {[t |-> "api", code |-> c] : c \in ApiCodes}
    \cup {[t |-> "http", code |-> 0], [t |-> "auth", code |-> 0]}

\* FromKubeError with 401 left to the `_` arm of the match on api_err.code
FromKubeError_401AsConnection(e) ==
    IF e.t = "api" THEN
        IF e.code = 403
            THEN ErrCode("PermissionDenied", "Kubernetes API access denied", e.code)
        ELSE IF e.code = 404
            THEN ErrCode("ResourceNotFound", "Resource not found", e.code)
        ELSE ErrCode("KubernetesConnection", "Kubernetes API error", e.code)
    ELSE IF e.t = "auth" THEN Err("PermissionDenied", "Authentication failed")
    ELSE Err("KubernetesConnection", "Kubernetes client error")

\* impl From<kube::Error> for NetInspectError
FromKubeError(e) ==
    IF e.t = "api" THEN
        IF e.code \in {401, 403}
            THEN ErrCode("PermissionDenied", "Kubernetes API access denied", e.code)
        ELSE IF e.code = 404
            THEN ErrCode("ResourceNotFound", "Resource not found", e.code)
        ELSE ErrCode("KubernetesConnection", "Kubernetes API error", e.code)
    ELSE IF e.t = "http"
        THEN Err("KubernetesConnection", "HTTP error connecting to Kubernetes")
    ELSE IF e.t = "auth" THEN Err("PermissionDenied", "Authentication failed")
    ELSE IF e.t = "discovery" THEN Err("KubernetesConnection", "Service discovery failed")
    ELSE Err("KubernetesConnection", "Kubernetes client error")

\* What one HTTP probe meets: the client builder failing ("build"), a
\* reqwest::Error of send ("timeout", "connect", "other"), or a response
\* ("status", with its status code).
HttpStatuses == {200, 204, 404, 503}
HttpOutcomes ==
    {[t |-> "status", code |-> c] : c \in HttpStatuses}
    \cup {[t |-> x, code |-> 0] : x \in {"build", "timeout", "connect", "other"}}

\* impl From<reqwest::Error> for NetInspectError
FromReqwestError(e) ==
    IF e.t = "timeout"
        THEN Err("Timeout", "HTTP request timed out - pod may be unreachable")
    ELSE IF e.t = "connect"
        THEN Err("NetworkConnectivity", "Failed to connect to pod")
    ELSE Err("NetworkConnectivity", "HTTP request failed")

(***************************************************************************)
(* Input validators (validation.rs).                                       *)
(***************************************************************************)
PodNameMaxLen == 253
NamespaceMaxLen == 63

\* [a-z0-9]([-a-z0-9]*[a-z0-9])?
MatchesLabel(s) ==
    /\ Len(s) >= 1
    /\ s[1] \in LowerAlnum
    /\ s[Len(s)] \in LowerAlnum
    /\ \A i \in 1..Len(s) : s[i] \in LowerAlnum \cup {"-"}

\* the pod-name pattern without its dotted repetition
MatchesPodName_SingleLabel(s) == MatchesLabel(s)

\* ^label(\.label)*$
MatchesPodName(s) ==
    LET labels == SplitOn(s, ".") IN \A i \in 1..Len(labels) : MatchesLabel(labels[i])

validate_pod_name(name) ==
    IF Len(name) = 0 THEN Err("InvalidInput", "Pod name cannot be empty")
    ELSE IF Len(name) > PodNameMaxLen
        THEN Err("InvalidInput", "Pod name cannot exceed 253 characters")
    ELSE IF ~MatchesPodName(name) THEN Err("InvalidInput", "Invalid pod name")
    ELSE Ok

\* validate_namespace with the pod-name limit and pattern
validate_namespace_AsPodName(namespace) == validate_pod_name(namespace)

validate_namespace(namespace) ==
    IF Len(namespace) = 0 THEN Err("InvalidInput", "Namespace cannot be empty")
    ELSE IF Len(namespace) > NamespaceMaxLen
        THEN Err("InvalidInput", "Namespace cannot exceed 63 characters")
    ELSE IF ~MatchesLabel(namespace) THEN Err("InvalidInput", "Invalid namespace")
    ELSE Ok

\* the octet pattern as [0-9]{1,3}
MatchesOctet_AnyThreeDigits(s) == Len(s) \in 1..3 /\ \A i \in 1..Len(s) : s[i] \in Digits

\* 25[0-5]|2[0-4][0-9]|[01]?[0-9][0-9]?
MatchesOctet(s) ==
    /\ Len(s) \in 1..3
    /\ \A i \in 1..Len(s) : s[i] \in Digits
    /\ Len(s) = 3 =>
         \/ s[1] \in {"0", "1"}
         \/ s[1] = "2" /\ s[2] \in {"0", "1", "2", "3", "4"}
         \/ s[1] = "2" /\ s[2] = "5" /\ s[3] \in {"0", "1", "2", "3", "4", "5"}

\* ^(octet\.){3}octet$
MatchesIpv4(s) ==
    LET parts == SplitOn(s, ".")
    IN Len(parts) = 4 /\ \A i \in 1..4 : MatchesOctet(parts[i])

\* ^([0-9a-fA-F]{1,4}:){7}[0-9a-fA-F]{1,4}$
MatchesIpv6(s) ==
    LET parts == SplitOn(s, ":")
    IN /\ Len(parts) = 8
       /\ \A i \in 1..8 : /\ Len(parts[i]) \in 1..4
                          /\ \A j \in 1..Len(parts[i]) : parts[i][j] \in HexDigits

\* validate_pod_ip with only the emptiness check
validate_pod_ip_NonEmptyOnly(ip) ==
    IF Len(ip) = 0 THEN Err("InvalidInput", "Pod IP cannot be empty") ELSE Ok

validate_pod_ip(ip) ==
    IF Len(ip) = 0 THEN Err("InvalidInput", "Pod IP cannot be empty")
    ELSE IF ~MatchesIpv4(ip) /\ ~MatchesIpv6(ip)
        THEN Err("InvalidInput", "Invalid IP address format")
    ELSE Ok

\* The environment validate_environment reads: whether KUBECONFIG is set and
\* the file it names exists, whether HOME is set and $HOME/.kube/config exists.
Environments ==
    {[kubeconfig_set |-> TRUE, kubeconfig_exists |-> x, home_set |-> FALSE,
      default_exists |-> FALSE] : x \in BOOLEAN}
    \cup {[kubeconfig_set |-> FALSE, kubeconfig_exists |-> FALSE, home_set |-> TRUE,
           default_exists |-> x] : x \in BOOLEAN}
    \cup {[kubeconfig_set |-> FALSE, kubeconfig_exists |-> FALSE, home_set |-> FALSE,
           default_exists |-> FALSE]}

validate_environment(e) ==
    IF e.kubeconfig_set THEN
        IF ~e.kubeconfig_exists THEN Err("Configuration", "KUBECONFIG file not found")
        ELSE Ok
    ELSE IF e.home_set /\ ~e.default_exists
        THEN Err("Configuration", "No kubeconfig found")
    ELSE Ok

(***************************************************************************)
(* CNI detector (commands/mod.rs, detect_cni).                             *)
(***************************************************************************)
\* A Node as far as detect_cni reads it: status and status.node_info are
\* Options, container_runtime_version a String, metadata.annotations an
\* Option of a map of which only the keys are read.
MkNode(hs, hi, rt, ha, ks) ==
    [has_status |-> hs, has_node_info |-> hi, container_runtime_version |-> rt,
     has_annotations |-> ha, annotation_keys |-> ks]

MarkerKeys == {KeyCalico, KeyFlannel, KeyWeave, KeyCilium}

\* annotation maps: absent, empty, a key no marker matches, one or two marker keys
AnnotationChoices ==
    {[has |-> FALSE, keys |-> {}], [has |-> TRUE, keys |-> {}],
     [has |-> TRUE, keys |-> {KeyHostname}]}
    \cup {[has |-> TRUE, keys |-> ks] :
            ks \in {s \in SUBSET MarkerKeys : Cardinality(s) \in {1, 2}}}

StatusChoices ==
    {[hs |-> FALSE, hi |-> FALSE, rt |-> <<>>],
     [hs |-> TRUE, hi |-> FALSE, rt |-> <<>>],
     [hs |-> TRUE, hi |-> TRUE, rt |-> RtContainerd],
     [hs |-> TRUE, hi |-> TRUE, rt |-> RtDocker],
     [hs |-> TRUE, hi |-> TRUE, rt |-> RtCrio]}

NodeUniverse ==
    {MkNode(s.hs, s.hi, s.rt, a.has, a.keys) : s \in StatusChoices, a \in AnnotationChoices}

\* sequences over S of length at most n
SeqsUpTo(S, n) == UNION {[1..k -> S] : k \in 0..n}

NodeLists == SeqsUpTo(NodeUniverse, MaxNodes)

\* annotations.keys().any(|k| k.contains(m)) for a node whose annotations are Some
AnyKeyContains(node, m) == \E k \in node.annotation_keys : Contains(k, m)

\* AnnotationCni with the cilium check made first
AnnotationCni_CiliumFirst(node) ==
    IF ~node.has_annotations THEN ""
    ELSE IF AnyKeyContains(node, S_cilium) THEN "Cilium"
    ELSE IF AnyKeyContains(node, S_calico) \/ AnyKeyContains(node, S_projectcalico)
         THEN "Calico"
    ELSE IF AnyKeyContains(node, S_flannel) THEN "Flannel"
    ELSE IF AnyKeyContains(node, S_weave) THEN "Weave Net"
    ELSE ""

\* the canonical name the annotation checks of one loop iteration push, "" if none
AnnotationCni(node) ==
    IF ~node.has_annotations THEN ""
    ELSE IF AnyKeyContains(node, S_calico) \/ AnyKeyContains(node, S_projectcalico)
         THEN "Calico"
    ELSE IF AnyKeyContains(node, S_flannel) THEN "Flannel"
    ELSE IF AnyKeyContains(node, S_weave) THEN "Weave Net"
    ELSE IF AnyKeyContains(node, S_cilium) THEN "Cilium"
    ELSE ""

\* the runtime fallback of one loop iteration, "" if nothing is pushed
RuntimeCni(node) ==
    IF Contains(node.container_runtime_version, S_containerd)
        THEN "Generic CNI (containerd)"
    ELSE IF Contains(node.container_runtime_version, S_docker)
        THEN "Generic CNI (docker)"
    ELSE ""

\* NodePush with the annotations read before status and node_info are looked at
NodePush_AnnotationsFirst(node) ==
    IF AnnotationCni(node) # "" THEN AnnotationCni(node)
    ELSE IF ~(node.has_status /\ node.has_node_info) THEN ""
    ELSE RuntimeCni(node)

\* what one iteration of the loop over nodes_list pushes to detected_cnis
NodePush(node) ==
    IF ~(node.has_status /\ node.has_node_info) THEN ""
    ELSE IF AnnotationCni(node) # "" THEN AnnotationCni(node)
    ELSE RuntimeCni(node)

\* detected_cnis after the loop
DetectedCnis(nodes) ==
    SelectSeq([i \in 1..Len(nodes) |-> NodePush(nodes[i])], LAMBDA x : x # "")

\* DetectCniOf without the is_empty check of the node list
DetectCniOf_EmptyIsUnknown(nodes) ==
    IF Len(DetectedCnis(nodes)) = 0 THEN "Unknown CNI"
    ELSE Head(DetectedCnis(nodes))

\* the String detect_cni returns for a listed nodes_list
DetectCniOf(nodes) ==
    IF Len(nodes) = 0 THEN "No nodes available for CNI detection"
    ELSE IF Len(DetectedCnis(nodes)) = 0 THEN "Unknown CNI"
    ELSE Head(DetectedCnis(nodes))

(***************************************************************************)
(* Inputs of a run and answers of the cluster.                             *)
(***************************************************************************)
NsDefault == <<"d", "e", "f", "a", "u", "l", "t">>
NsKubeSystem == <<"k", "u", "b", "e", "-", "s", "y", "s", "t", "e", "m">>
NsBad == <<"B", "a", "d", "_", "n", "s">>
PodWeb == <<"w", "e", "b", "-", "1", ".", "a", "p", "p">>
PodBad == <<"-", "w", "e", "b">>
PodListed == <<"k", "u", "b", "e", "-", "p", "r", "o", "x", "y">>
IpV4 == <<"1", "0", ".", "0", ".", "0", ".", "7">>
IpBadOctet == <<"2", "5", "6", ".", "1", ".", "1", ".", "1">>
IpV6Full == <<"f", "e", "8", "0", ":", "0", ":", "0", ":", "0", ":", "0", ":", "0", ":", "0", ":", "1">>
IpV6Compressed == <<"f", "e", "8", "0", ":", ":", "1">>

\* the parsed command line (Cli): test-pod's namespace defaults to "default"
MkCmd(name, hn, ns, pod) ==
    [name |-> name, has_namespace |-> hn, namespace |-> ns, pod |-> pod]

Commands ==
    {MkCmd("version", FALSE, <<>>, <<>>), MkCmd("diagnose", FALSE, <<>>, <<>>)}
    \cup {MkCmd("diagnose", TRUE, ns, <<>>) : ns \in {NsKubeSystem, NsBad}}
    \cup {MkCmd("test-pod", TRUE, ns, p) : ns \in {NsDefault, NsBad}, p \in {PodWeb, PodBad}}

\* a fetched Pod as far as test_pod reads it
MkPod(hs, hp, phase, hip, ip) ==
    [has_status |-> hs, has_phase |-> hp, phase |-> phase, has_pod_ip |-> hip, pod_ip |-> ip]

NoPod == MkPod(FALSE, FALSE, "", FALSE, <<>>)

PodChoices ==
    {NoPod}
    \cup {MkPod(TRUE, FALSE, "", TRUE, IpV4)}
    \cup {MkPod(TRUE, TRUE, ph, FALSE, <<>>) : ph \in {"Pending", "Running"}}
    \cup {MkPod(TRUE, TRUE, ph, TRUE, ip) :
            ph \in {"Pending", "Failed", "Succeeded", "Running", "Unknown"},
            ip \in {IpV4, IpBadOctet, IpV6Full, IpV6Compressed}}

\* node lists the cluster answers a run of diagnose with
RunNodeUniverse ==
    {MkNode(TRUE, TRUE, RtContainerd, FALSE, {}),
     MkNode(TRUE, TRUE, RtCrio, TRUE, {KeyFlannel}),
     MkNode(FALSE, FALSE, <<>>, TRUE, {KeyCalico})}

RunNodeLists == SeqsUpTo(RunNodeUniverse, MaxNodes)

(***************************************************************************)
(* State.                                                                  *)
(***************************************************************************)
VARIABLES
    pc,            \* position of the run
    cmd,           \* the parsed command line
    environ,       \* the process environment
    log,           \* what the run has done, in order: client creations, API
                   \* calls, HTTP probes, suspends, printed report lines
    ret,           \* what each function has returned (Pending before)
    exit_status,   \* the code of process::exit, -1 while running
    nodes_list,    \* detect_cni: the listed nodes
    cni_type,      \* detect_cni's returned String, "" before it returns
    node_count,    \* diagnose: get_cluster_nodes' count, -1 before
    pod,           \* test_pod: the fetched pod
    attempt,       \* test_connectivity_with_retries: the loop variable
    max_retries,   \* test_connectivity_with_retries: its budget
    perm           \* validate_specific_permission: resource, verbs and the
                   \* position of `for verb in verbs`

vars == <<pc, cmd, environ, log, ret, exit_status, nodes_list, cni_type,
          node_count, pod, attempt, max_retries, perm>>

\* scopes of an Api handle: Api::all, Api::namespaced(ns)
ClusterScope == [kind |-> "cluster", ns |-> <<>>]
Namespaced(ns) == [kind |-> "namespaced", ns |-> ns]

\* log entries
Event(op, by, res, verb, scope, limit, out, n, item) ==
    [op |-> op, by |-> by, res |-> res, verb |-> verb, scope |-> scope,
     limit |-> limit, out |-> out.t, code |-> out.code, n |-> n, item |-> item]
\* ApiCall with the get sent as a patch of the object
ApiCall_GetAsPatch(by, res, verb, scope, limit, out, n, item) ==
    Event("api", by, res, IF verb = "get" THEN "patch" ELSE verb, scope, limit, out, n, item)

\* one list or get on the control-plane API: limit is ListParams' limit (0: none),
\* n the number of items a list returned, item what the code reads of the first
ApiCall(by, res, verb, scope, limit, out, n, item) ==
    Event("api", by, res, verb, scope, limit, out, n, item)
\* Client::try_default()
ClientCreate(by, out) == Event("client", by, "", "", ClusterScope, 0, out, 0, "")
\* one run of test_connectivity, n the attempt number
HttpProbe(out, n) == Event("http", "test_connectivity", "", "GET", ClusterScope, 0, out, n, "")
\* tokio::time::sleep, n the milliseconds
Sleep(ms) == Event("sleep", "test_connectivity_with_retries", "", "", ClusterScope, 0, OkOut, ms, "")
\* a println! of the report, n the number it shows
Printed(by, what, n) == Event("print", by, what, "", ClusterScope, 0, OkOut, n, "")

NoReturns ==
    [validate_environment |-> Pending, validate_pod_name |-> Pending,
     validate_namespace |-> Pending, validate_kubernetes_access |-> Pending,
     validate_namespace_exists |-> Pending, diagnose |-> Pending,
     test_pod |-> Pending, test_connectivity_with_retries |-> Pending,
     validate_specific_permission |-> Pending, main |-> Pending]

\* validate_specific_permission's arguments and loop position while it is not run
NoPerm == [resource |-> "", verbs |-> <<>>, next |-> 0]

\* ExitOf with process::exit(0) in both arms of the match on the result
ExitOf_AlwaysZero(r) == 0

\* process::exit(0) on Ok, process::exit(e.exit_code()) on Err(e)
ExitOf(r) == IF r.ok THEN 0 ELSE exit_code(r.kind)

Init ==
    /\ pc = "main"
    /\ cmd \in Commands
    /\ environ \in Environments
    /\ log = <<>>
    /\ ret = NoReturns
    /\ exit_status = -1
    /\ nodes_list = <<>>
    /\ cni_type = ""
    /\ node_count = -1
    /\ pod = NoPod
    /\ attempt = 0
    /\ max_retries = 0
    /\ perm = NoPerm

(***************************************************************************)
(* main (main.rs).                                                         *)
(***************************************************************************)
\* main: Validator::validate_environment(), exit on Err
MainValidateEnvironment ==
    /\ pc = "main"
    /\ LET r == validate_environment(environ)
       IN /\ ret' = [ret EXCEPT !.validate_environment = r]
          /\ IF r.ok THEN pc' = "dispatch" /\ UNCHANGED exit_status
             ELSE pc' = "exited" /\ exit_status' = exit_code(r.kind)
    /\ UNCHANGED <<cmd, environ, perm, log, nodes_list, cni_type, node_count, pod,
                   attempt, max_retries>>

\* main: the match on the command up to its first await
MainDispatch ==
    /\ pc = "dispatch"
    /\ IF cmd.name = "version" THEN
            /\ log' = Append(log, Printed("version", "version", 0))
            /\ ret' = [ret EXCEPT !.main = Ok]
            /\ pc' = "exited"
            /\ exit_status' = 0
       ELSE IF cmd.name = "diagnose" THEN
            /\ pc' = "access_client"
            /\ UNCHANGED <<log, ret, exit_status>>
       ELSE LET rp == validate_pod_name(cmd.pod)
                rn == validate_namespace(cmd.namespace)
            IN IF ~rp.ok THEN
                    /\ ret' = [ret EXCEPT !.validate_pod_name = rp, !.main = rp]
                    /\ pc' = "exited"
                    /\ exit_status' = ExitOf(rp)
                    /\ UNCHANGED log
               ELSE IF ~rn.ok THEN
                    /\ ret' = [ret EXCEPT !.validate_pod_name = rp,
                                          !.validate_namespace = rn, !.main = rn]
                    /\ pc' = "exited"
                    /\ exit_status' = ExitOf(rn)
                    /\ UNCHANGED log
               ELSE /\ ret' = [ret EXCEPT !.validate_pod_name = rp,
                                          !.validate_namespace = rn]
                    /\ pc' = "access_client"
                    /\ UNCHANGED <<log, exit_status>>
    /\ UNCHANGED <<cmd, environ, perm, nodes_list, cni_type, node_count, pod,
                   attempt, max_retries>>

(***************************************************************************)
(* Permission prober (validation.rs, validate_kubernetes_access).          *)
(***************************************************************************)
\* validate_kubernetes_access returns r to main
AccessReturns(r) ==
    /\ ret' = [ret EXCEPT !.validate_kubernetes_access = r]
    /\ pc' = "access_returned"

\* Client::try_default() of validate_kubernetes_access
AccessCreateClient ==
    /\ pc = "access_client"
    /\ \E o \in {OkOut, ConfigErr} :
        /\ log' = Append(log, ClientCreate("validate_kubernetes_access", o))
        /\ IF o.t = "ok" THEN pc' = "access_nodes" /\ UNCHANGED ret
           ELSE AccessReturns(Err("KubernetesConnection",
                                  "Failed to create Kubernetes client"))
    /\ UNCHANGED <<cmd, environ, perm, exit_status, nodes_list, cni_type, node_count,
                   pod, attempt, max_retries>>

\* ListProbe with one more try of the list after its first failure
ListProbe_RetriesOnError(at, by, res, scope, denied, next) ==
    /\ pc = at
    /\ \E o \in {OkOut} \cup KubeErrors :
        /\ log' = Append(log, ApiCall(by, res, "list", scope, 1, o, 0, ""))
        /\ IF o.t = "ok" THEN
                IF next = "access_returned" THEN AccessReturns(Ok)
                ELSE pc' = next /\ UNCHANGED ret
           ELSE IF ~\E i \in 1..Len(log) : log[i].by = by /\ log[i].out # "ok"
                THEN pc' = at /\ UNCHANGED ret
           ELSE IF o.t = "api" /\ o.code = 403
                THEN AccessReturns(ErrCode("PermissionDenied", denied, 403))
           ELSE AccessReturns(FromKubeError(o))
    /\ UNCHANGED <<cmd, environ, perm, exit_status, nodes_list, cni_type, node_count,
                   pod, attempt, max_retries>>

\* ListProbe with a 403 taken for success: the prober goes on to the next resource
ListProbe_IgnoresDenied(at, by, res, scope, denied, next) ==
    /\ pc = at
    /\ \E o \in {OkOut} \cup KubeErrors :
        /\ log' = Append(log, ApiCall(by, res, "list", scope, 1, o, 0, ""))
        /\ IF o.t = "ok" \/ (o.t = "api" /\ o.code = 403) THEN
                IF next = "access_returned" THEN AccessReturns(Ok)
                ELSE pc' = next /\ UNCHANGED ret
           ELSE AccessReturns(FromKubeError(o))
    /\ UNCHANGED <<cmd, environ, perm, exit_status, nodes_list, cni_type, node_count,
                   pod, attempt, max_retries>>

\* ListProbe with only the 403 looked at, as validate_specific_permission does:
\* any other error is dropped and the prober goes on
ListProbe_DropsOtherErrors(at, by, res, scope, denied, next) ==
    /\ pc = at
    /\ \E o \in {OkOut} \cup KubeErrors :
        /\ log' = Append(log, ApiCall(by, res, "list", scope, 1, o, 0, ""))
        /\ IF o.t = "api" /\ o.code = 403
                THEN AccessReturns(ErrCode("PermissionDenied", denied, 403))
           ELSE IF next = "access_returned" THEN AccessReturns(Ok)
           ELSE pc' = next /\ UNCHANGED ret
    /\ UNCHANGED <<cmd, environ, perm, exit_status, nodes_list, cni_type, node_count,
                   pod, attempt, max_retries>>

\* The probe of validate_nodes_access, validate_services_access,
\* validate_endpoints_access, validate_namespaces_access and the first list of
\* validate_pods_access: a list capped at one item whose items are not read;
\* 403 is PermissionDenied with the resource's text, any other error is
\* converted; on Ok the prober goes on at `next`.
ListProbe(at, by, res, scope, denied, next) ==
    /\ pc = at
    /\ \E o \in {OkOut} \cup KubeErrors :
        /\ log' = Append(log, ApiCall(by, res, "list", scope, 1, o, 0, ""))
        /\ IF o.t = "ok" THEN
                IF next = "access_returned" THEN AccessReturns(Ok)
                ELSE pc' = next /\ UNCHANGED ret
           ELSE IF o.t = "api" /\ o.code = 403
                THEN AccessReturns(ErrCode("PermissionDenied", denied, 403))
           ELSE AccessReturns(FromKubeError(o))
    /\ UNCHANGED <<cmd, environ, perm, exit_status, nodes_list, cni_type, node_count,
                   pod, attempt, max_retries>>

AccessNodes ==
    ListProbe("access_nodes", "validate_nodes_access", "nodes", ClusterScope,
              "Missing RBAC permission: 'nodes/list'", "access_pods_list")

AccessPodsList ==
    ListProbe("access_pods_list", "validate_pods_access", "pods", Namespaced(NsDefault),
              "Missing RBAC permission: 'pods/list' and 'pods/get'", "access_pods_list2")

\* validate_pods_access: the second list, whose first item's name is read
AccessPodsListAgain ==
    /\ pc = "access_pods_list2"
    /\ \/ \E item \in {"none", "named", "unnamed"} :
            /\ log' = Append(log, ApiCall("validate_pods_access", "pods", "list",
                                          Namespaced(NsDefault), 1, OkOut,
                                          IF item = "none" THEN 0 ELSE 1, item))
            /\ pc' = IF item = "named" THEN "access_pods_get" ELSE "access_services"
            /\ UNCHANGED ret
       \/ \E o \in KubeErrors :
            /\ log' = Append(log, ApiCall("validate_pods_access", "pods", "list",
                                          Namespaced(NsDefault), 1, o, 0, ""))
            /\ AccessReturns(FromKubeError(o))
    /\ UNCHANGED <<cmd, environ, perm, exit_status, nodes_list, cni_type, node_count,
                   pod, attempt, max_retries>>

\* validate_pods_access: get of the first listed pod; only a 403 is an error
AccessPodsGet ==
    /\ pc = "access_pods_get"
    /\ \E o \in {OkOut} \cup KubeErrors :
        /\ log' = Append(log, ApiCall("validate_pods_access", "pods", "get",
                                      Namespaced(NsDefault), 0, o, 0, "named"))
        /\ IF o.t = "api" /\ o.code = 403
           THEN AccessReturns(ErrCode("PermissionDenied",
                                      "Missing RBAC permission: 'pods/get'", 403))
           ELSE pc' = "access_services" /\ UNCHANGED ret
    /\ UNCHANGED <<cmd, environ, perm, exit_status, nodes_list, cni_type, node_count,
                   pod, attempt, max_retries>>

AccessServices ==
    ListProbe("access_services", "validate_services_access", "services",
              Namespaced(NsDefault),
              "Missing RBAC permission: 'services/list' and 'services/get'",
              "access_endpoints")

AccessEndpoints ==
    ListProbe("access_endpoints", "validate_endpoints_access", "endpoints",
              Namespaced(NsDefault),
              "Missing RBAC permission: 'endpoints/list' and 'endpoints/get'",
              "access_namespaces")

AccessNamespaces ==
    ListProbe("access_namespaces", "validate_namespaces_access", "namespaces",
              ClusterScope,
              "Missing RBAC permission: 'namespaces/list' and 'namespaces/get'",
              "access_returned")

\* MainAfterAccess with the prober's result not looked at
MainAfterAccess_IgnoresProber ==
    /\ pc = "access_returned"
    /\ LET rn == validate_namespace(cmd.namespace)
       IN IF cmd.name = "test-pod" THEN
               /\ pc' = "tp_client"
               /\ UNCHANGED <<ret, exit_status>>
          ELSE IF ~cmd.has_namespace THEN
               /\ pc' = "diag_client"
               /\ UNCHANGED <<ret, exit_status>>
          ELSE IF ~rn.ok THEN
               /\ ret' = [ret EXCEPT !.validate_namespace = rn, !.main = rn]
               /\ pc' = "exited"
               /\ exit_status' = ExitOf(rn)
          ELSE /\ ret' = [ret EXCEPT !.validate_namespace = rn]
               /\ pc' = "ns_exists_client"
               /\ UNCHANGED exit_status
    /\ UNCHANGED <<cmd, environ, perm, log, nodes_list, cni_type, node_count, pod,
                   attempt, max_retries>>

\* main: after validate_kubernetes_access, up to the next await
MainAfterAccess ==
    /\ pc = "access_returned"
    /\ LET ra == ret.validate_kubernetes_access
           rn == validate_namespace(cmd.namespace)
       IN IF ~ra.ok THEN
               /\ ret' = [ret EXCEPT !.main = ra]
               /\ pc' = "exited"
               /\ exit_status' = ExitOf(ra)
          ELSE IF cmd.name = "test-pod" THEN
               /\ pc' = "tp_client"
               /\ UNCHANGED <<ret, exit_status>>
          ELSE IF ~cmd.has_namespace THEN
               /\ pc' = "diag_client"
               /\ UNCHANGED <<ret, exit_status>>
          ELSE IF ~rn.ok THEN
               /\ ret' = [ret EXCEPT !.validate_namespace = rn, !.main = rn]
               /\ pc' = "exited"
               /\ exit_status' = ExitOf(rn)
          ELSE /\ ret' = [ret EXCEPT !.validate_namespace = rn]
               /\ pc' = "ns_exists_client"
               /\ UNCHANGED exit_status
    /\ UNCHANGED <<cmd, environ, perm, log, nodes_list, cni_type, node_count, pod,
                   attempt, max_retries>>

(***************************************************************************)
(* validate_namespace_exists (validation.rs).                              *)
(***************************************************************************)
\* main's result is r: eprintln of the message, process::exit
MainExits(r) ==
    /\ pc' = "exited"
    /\ exit_status' = ExitOf(r)

NsExistsCreateClient ==
    /\ pc = "ns_exists_client"
    /\ \E o \in {OkOut, ConfigErr} :
        /\ log' = Append(log, ClientCreate("validate_namespace_exists", o))
        /\ IF o.t = "ok" THEN pc' = "ns_exists_get" /\ UNCHANGED <<ret, exit_status>>
           ELSE /\ ret' = [ret EXCEPT !.validate_namespace_exists = FromKubeError(o),
                                      !.main = FromKubeError(o)]
                /\ MainExits(FromKubeError(o))
    /\ UNCHANGED <<cmd, environ, perm, nodes_list, cni_type, node_count, pod, attempt,
                   max_retries>>

\* NsExistsResult with only the 403 taken for an error
NsExistsResult_DeniedOnly(o) ==
    IF o.t = "api" /\ o.code = 403
        THEN ErrCode("PermissionDenied", "Missing RBAC permission: namespaces/get", 403)
    ELSE Ok

\* the Result of validate_namespace_exists for the answer to its get
NsExistsResult(o) ==
    IF o.t = "ok" THEN Ok
    ELSE IF o.t = "api" /\ o.code = 404
        THEN ErrCode("ResourceNotFound", "Namespace does not exist in the cluster", 404)
    ELSE IF o.t = "api" /\ o.code = 403
        THEN ErrCode("PermissionDenied", "Missing RBAC permission: namespaces/get", 403)
    ELSE FromKubeError(o)

NsExistsGet ==
    /\ pc = "ns_exists_get"
    /\ \E o \in {OkOut} \cup KubeErrors :
        /\ log' = Append(log, ApiCall("validate_namespace_exists", "namespaces", "get",
                                      ClusterScope, 0, o, 0, ""))
        /\ IF NsExistsResult(o).ok THEN
                /\ ret' = [ret EXCEPT !.validate_namespace_exists = Ok]
                /\ pc' = "diag_client"
                /\ UNCHANGED exit_status
           ELSE /\ ret' = [ret EXCEPT !.validate_namespace_exists = NsExistsResult(o),
                                      !.main = NsExistsResult(o)]
                /\ MainExits(NsExistsResult(o))
    /\ UNCHANGED <<cmd, environ, perm, nodes_list, cni_type, node_count, pod, attempt,
                   max_retries>>

(***************************************************************************)
(* Diagnosis orchestrator (commands/mod.rs, diagnose).                     *)
(***************************************************************************)
\* diagnose returns r, which is main's result
DiagnoseReturns(r) ==
    /\ ret' = [ret EXCEPT !.diagnose = r, !.main = r]
    /\ MainExits(r)

\* create_kubernetes_client()
DiagCreateClient ==
    /\ pc = "diag_client"
    /\ \E o \in {OkOut, ConfigErr} :
        /\ log' = Append(log, ClientCreate("diagnose", o))
        /\ IF o.t = "ok" THEN pc' = "diag_cni" /\ UNCHANGED <<ret, exit_status>>
           ELSE DiagnoseReturns(FromKubeError(o))
    /\ UNCHANGED <<cmd, environ, perm, nodes_list, cni_type, node_count, pod, attempt,
                   max_retries>>

\* DiagDetectCni with an elapsed deadline reported as an unknown CNI and the
\* diagnosis going on to step 2
DiagDetectCni_TimeoutGoesOn ==
    /\ pc = "diag_cni"
    /\ \/ \E nodes \in RunNodeLists :
            /\ nodes_list' = nodes
            /\ cni_type' = DetectCniOf(nodes)
            /\ log' = log \o <<ApiCall("detect_cni", "nodes", "list", ClusterScope, 0,
                                       OkOut, Len(nodes), ""),
                               Printed("diagnose", "cni", 0)>>
            /\ pc' = "diag_nodes"
            /\ UNCHANGED <<ret, exit_status>>
       \/ \E o \in KubeErrors :
            /\ log' = Append(log, ApiCall("detect_cni", "nodes", "list", ClusterScope, 0,
                                          o, 0, ""))
            /\ DiagnoseReturns(FromKubeError(o))
            /\ UNCHANGED <<nodes_list, cni_type>>
       \/ /\ log' = log \o <<ApiCall("detect_cni", "nodes", "list", ClusterScope, 0,
                                     TimeoutOut, 0, ""),
                             Printed("diagnose", "cni", 0)>>
          /\ cni_type' = "Unknown CNI"
          /\ pc' = "diag_nodes"
          /\ UNCHANGED <<nodes_list, ret, exit_status>>
    /\ UNCHANGED <<cmd, environ, perm, node_count, pod, attempt, max_retries>>

\* step 1: timeout(30 s, detect_cni): the node list, then the scan
DiagDetectCni ==
    /\ pc = "diag_cni"
    /\ \/ \E nodes \in RunNodeLists :
            /\ nodes_list' = nodes
            /\ cni_type' = DetectCniOf(nodes)
            /\ log' = log \o <<ApiCall("detect_cni", "nodes", "list", ClusterScope, 0,
                                       OkOut, Len(nodes), ""),
                               Printed("diagnose", "cni", 0)>>
            /\ pc' = "diag_nodes"
            /\ UNCHANGED <<ret, exit_status>>
       \/ \E o \in KubeErrors :
            /\ log' = Append(log, ApiCall("detect_cni", "nodes", "list", ClusterScope, 0,
                                          o, 0, ""))
            /\ DiagnoseReturns(FromKubeError(o))
            /\ UNCHANGED <<nodes_list, cni_type>>
       \/ /\ log' = Append(log, ApiCall("detect_cni", "nodes", "list", ClusterScope, 0,
                                        TimeoutOut, 0, ""))
          /\ DiagnoseReturns(Err("Timeout", "CNI detection timed out after 30 seconds"))
          /\ UNCHANGED <<nodes_list, cni_type>>
    /\ UNCHANGED <<cmd, environ, perm, node_count, pod, attempt, max_retries>>

\* step 2: timeout(15 s, get_cluster_nodes)
DiagCountNodes ==
    /\ pc = "diag_nodes"
    /\ \/ \E n \in 0..MaxItems :
            /\ node_count' = n
            /\ log' = log \o <<ApiCall("get_cluster_nodes", "nodes", "list", ClusterScope,
                                       0, OkOut, n, ""),
                               Printed("diagnose",
                                       IF n = 0 THEN "no_nodes" ELSE "nodes", n)>>
            /\ pc' = "diag_pods"
            /\ UNCHANGED <<ret, exit_status>>
       \/ \E o \in KubeErrors :
            /\ log' = Append(log, ApiCall("get_cluster_nodes", "nodes", "list",
                                          ClusterScope, 0, o, 0, ""))
            /\ DiagnoseReturns(FromKubeError(o))
            /\ UNCHANGED node_count
       \/ /\ log' = Append(log, ApiCall("get_cluster_nodes", "nodes", "list",
                                        ClusterScope, 0, TimeoutOut, 0, ""))
          /\ DiagnoseReturns(Err("Timeout", "Node listing timed out after 15 seconds"))
          /\ UNCHANGED node_count
    /\ UNCHANGED <<cmd, environ, perm, nodes_list, cni_type, pod, attempt, max_retries>>

\* the scope check_pods_in_namespace lists pods in
PodCountScope == IF cmd.has_namespace THEN Namespaced(cmd.namespace) ELSE ClusterScope

\* Step3Result with a failed or timed-out pod count returned as diagnose's error
Step3Result_Fatal(o) ==
    IF o.t = "ok" THEN Ok
    ELSE IF o.t = "timeout" THEN Err("Timeout", "Pod listing timed out after 15 seconds")
    ELSE FromKubeError(o)

\* what diagnose returns after step 3 met o: Ok(()) in every arm of the match
Step3Result(o) == Ok

\* step 3: timeout(15 s, check_pods_in_namespace); diagnose returns Ok(())
DiagCountPods ==
    /\ pc = "diag_pods"
    /\ \/ \E n \in 0..MaxItems :
            /\ log' = log \o <<ApiCall("check_pods_in_namespace", "pods", "list",
                                       PodCountScope, 0, OkOut, n, ""),
                               Printed("diagnose", "pods", n)>>
            /\ DiagnoseReturns(Step3Result(OkOut))
       \/ \E o \in KubeErrors :
            /\ log' = log \o <<ApiCall("check_pods_in_namespace", "pods", "list",
                                       PodCountScope, 0, o, 0, ""),
                               Printed("diagnose", "pods_failed", 0)>>
            /\ DiagnoseReturns(Step3Result(o))
       \/ /\ log' = log \o <<ApiCall("check_pods_in_namespace", "pods", "list",
                                     PodCountScope, 0, TimeoutOut, 0, ""),
                             Printed("diagnose", "pods_timed_out", 0)>>
          /\ DiagnoseReturns(Step3Result(TimeoutOut))
    /\ UNCHANGED <<cmd, environ, perm, nodes_list, cni_type, node_count, pod, attempt,
                   max_retries>>

(***************************************************************************)
(* test_pod (commands/mod.rs).                                             *)
(***************************************************************************)
\* test_pod returns r, which is main's result
TestPodReturns(r) ==
    /\ ret' = [ret EXCEPT !.test_pod = r, !.main = r]
    /\ MainExits(r)

\* create_kubernetes_client()
TpCreateClient ==
    /\ pc = "tp_client"
    /\ \E o \in {OkOut, ConfigErr} :
        /\ log' = Append(log, ClientCreate("test_pod", o))
        /\ IF o.t = "ok" THEN pc' = "tp_get" /\ UNCHANGED <<ret, exit_status>>
           ELSE TestPodReturns(FromKubeError(o))
    /\ UNCHANGED <<cmd, environ, perm, nodes_list, cni_type, node_count, pod, attempt,
                   max_retries>>

\* TpGetPod with the elapsed deadline of the fetch returned as a connection error
TpGetPod_TimeoutAsConnection ==
    /\ pc = "tp_get"
    /\ \/ \E p \in PodChoices :
            /\ pod' = p
            /\ log' = Append(log, ApiCall("test_pod", "pods", "get",
                                          Namespaced(cmd.namespace), 0, OkOut, 1, ""))
            /\ pc' = "tp_status"
            /\ UNCHANGED <<ret, exit_status>>
       \/ \E o \in KubeErrors :
            /\ log' = Append(log, ApiCall("test_pod", "pods", "get",
                                          Namespaced(cmd.namespace), 0, o, 0, ""))
            /\ TestPodReturns(IF o.t = "api" /\ o.code = 404
                              THEN ErrCode("ResourceNotFound", "Pod not found in namespace", 404)
                              ELSE FromKubeError(o))
            /\ UNCHANGED pod
       \/ /\ log' = Append(log, ApiCall("test_pod", "pods", "get",
                                        Namespaced(cmd.namespace), 0, TimeoutOut, 0, ""))
          /\ TestPodReturns(Err("KubernetesConnection", "Pod lookup failed"))
          /\ UNCHANGED pod
    /\ UNCHANGED <<cmd, environ, perm, nodes_list, cni_type, node_count, attempt, max_retries>>

\* timeout(10 s, pods.get(pod_name))
TpGetPod ==
    /\ pc = "tp_get"
    /\ \/ \E p \in PodChoices :
            /\ pod' = p
            /\ log' = Append(log, ApiCall("test_pod", "pods", "get",
                                          Namespaced(cmd.namespace), 0, OkOut, 1, ""))
            /\ pc' = "tp_status"
            /\ UNCHANGED <<ret, exit_status>>
       \/ \E o \in KubeErrors :
            /\ log' = Append(log, ApiCall("test_pod", "pods", "get",
                                          Namespaced(cmd.namespace), 0, o, 0, ""))
            /\ TestPodReturns(IF o.t = "api" /\ o.code = 404
                              THEN ErrCode("ResourceNotFound", "Pod not found in namespace", 404)
                              ELSE FromKubeError(o))
            /\ UNCHANGED pod
       \/ /\ log' = Append(log, ApiCall("test_pod", "pods", "get",
                                        Namespaced(cmd.namespace), 0, TimeoutOut, 0, ""))
          /\ TestPodReturns(Err("Timeout", "Pod lookup timed out after 10 seconds"))
          /\ UNCHANGED pod
    /\ UNCHANGED <<cmd, environ, perm, nodes_list, cni_type, node_count, attempt, max_retries>>

\* PhaseNotRunning with "Succeeded" left out of the match arm
PhaseNotRunning_FailedOnly(phase) == phase \in {"Failed"}

\* the match arm "Failed" | "Succeeded"
PhaseNotRunning(phase) == phase \in {"Failed", "Succeeded"}

\* the status and phase checks
TpCheckPhase ==
    /\ pc = "tp_status"
    /\ IF ~pod.has_status THEN
            /\ TestPodReturns(Err("ResourceNotFound", "Pod has no status information"))
            /\ UNCHANGED log
       ELSE IF pod.has_phase /\ pod.phase = "Pending" THEN
            /\ log' = Append(log, Printed("test_pod", "phase_pending", 0))
            /\ TestPodReturns(Err("ResourceNotFound",
                                  "Pod is pending and has no IP address yet"))
       ELSE IF pod.has_phase /\ PhaseNotRunning(pod.phase) THEN
            /\ log' = Append(log, Printed("test_pod", "phase_not_running", 0))
            /\ TestPodReturns(Err("ResourceNotFound",
                                  "Pod is in Failed or Succeeded phase and cannot be tested"))
       ELSE /\ log' = IF ~pod.has_phase THEN log
                      ELSE IF pod.phase = "Running"
                          THEN Append(log, Printed("test_pod", "phase_running", 0))
                      ELSE Append(log, Printed("test_pod", "phase_other", 0))
            /\ pc' = "tp_ip"
            /\ UNCHANGED <<ret, exit_status>>
    /\ UNCHANGED <<cmd, environ, perm, nodes_list, cni_type, node_count, pod, attempt,
                   max_retries>>

\* the pod_ip checks, up to the call of the connectivity tester
TpCheckIp ==
    /\ pc = "tp_ip"
    /\ IF ~pod.has_pod_ip THEN
            /\ TestPodReturns(Err("ResourceNotFound", "Pod has no IP address assigned"))
            /\ UNCHANGED <<log, attempt, max_retries>>
       ELSE IF ~validate_pod_ip(pod.pod_ip).ok THEN
            /\ TestPodReturns(validate_pod_ip(pod.pod_ip))
            /\ UNCHANGED <<log, attempt, max_retries>>
       ELSE /\ log' = Append(log, Printed("test_pod", "pod_ip", 0))
            /\ max_retries' = TestPodAttempts
            /\ attempt' = 0
            /\ pc' = "conn_loop"
            /\ UNCHANGED <<ret, exit_status>>
    /\ UNCHANGED <<cmd, environ, perm, nodes_list, cni_type, node_count, pod>>

(***************************************************************************)
(* Connectivity tester (commands/mod.rs).                                  *)
(***************************************************************************)
\* IsSuccess taking every status below 400 for a success
IsSuccess_Below400(code) == code >= 200 /\ code <= 399

\* StatusCode::is_success
IsSuccess(code) == code >= 200 /\ code <= 299

\* the Result of one test_connectivity for what the probe met
test_connectivity(o) ==
    IF o.t = "build" THEN Err("Runtime", "Failed to create HTTP client")
    ELSE IF o.t = "status" THEN
        IF IsSuccess(o.code) THEN Ok
        ELSE ErrCode("NetworkConnectivity", "HTTP status", o.code)
    ELSE FromReqwestError(o)

\* TesterReturns with test_pod putting the tester's error into a Runtime error
TesterReturns_AsRuntime(r) ==
    IF cmd.name = "test-pod" THEN
        /\ ret' = [ret EXCEPT !.test_connectivity_with_retries = r,
                              !.test_pod = IF r.ok THEN r ELSE Err("Runtime", r.msg),
                              !.main = IF r.ok THEN r ELSE Err("Runtime", r.msg)]
        /\ MainExits(IF r.ok THEN r ELSE Err("Runtime", r.msg))
    ELSE
        /\ ret' = [ret EXCEPT !.test_connectivity_with_retries = r]
        /\ pc' = "tester_returned"
        /\ UNCHANGED exit_status

\* test_connectivity_with_retries returns r: to test_pod, which returns it to
\* main, or to the caller that ran the tester on its own
TesterReturns(r) ==
    IF cmd.name = "test-pod" THEN
        /\ ret' = [ret EXCEPT !.test_connectivity_with_retries = r,
                              !.test_pod = r, !.main = r]
        /\ MainExits(r)
    ELSE
        /\ ret' = [ret EXCEPT !.test_connectivity_with_retries = r]
        /\ pc' = "tester_returned"
        /\ UNCHANGED exit_status

\* for attempt in 1..=max_retries; unreachable!() when the range is exhausted
ConnLoop ==
    /\ pc = "conn_loop"
    /\ IF attempt < max_retries
       THEN attempt' = attempt + 1 /\ pc' = "conn_attempt"
       ELSE attempt' = attempt /\ pc' = "panicked"
    /\ UNCHANGED <<cmd, environ, perm, log, ret, exit_status, nodes_list, cni_type,
                   node_count, pod, max_retries>>

\* RetryAfter with the last failed attempt followed by a suspend as well
RetryAfter_Always(a, m) == TRUE

\* RetryAfter giving up one attempt early
RetryAfter_OneEarly(a, m) == a + 1 < m

\* whether a failed attempt is followed by a retry: if attempt < max_retries
RetryAfter(a, m) == a < m

\* ConnAttempt with a successful attempt not ending the loop while attempts remain
ConnAttempt_KeepsProbing ==
    /\ pc = "conn_attempt"
    /\ \E o \in HttpOutcomes :
        IF RetryAfter(attempt, max_retries) THEN
            /\ log' = log \o <<HttpProbe(o, attempt),
                               Printed("test_connectivity_with_retries", "retrying", attempt)>>
            /\ pc' = "conn_sleep"
            /\ UNCHANGED <<ret, exit_status>>
        ELSE
            /\ log' = log \o <<HttpProbe(o, attempt)>>
            /\ TesterReturns(test_connectivity(o))
    /\ UNCHANGED <<cmd, environ, perm, nodes_list, cni_type, node_count, pod, attempt,
                   max_retries>>

\* one test_connectivity(pod_ip).await and the match on its result
ConnAttempt ==
    /\ pc = "conn_attempt"
    /\ \E o \in HttpOutcomes :
        IF test_connectivity(o).ok THEN
            /\ log' = log \o <<HttpProbe(o, attempt)>>
                          \o (IF cmd.name = "test-pod"
                              THEN <<Printed("test_pod", "PASS", 0)>> ELSE <<>>)
            /\ TesterReturns(Ok)
        ELSE IF RetryAfter(attempt, max_retries) THEN
            /\ log' = log \o <<HttpProbe(o, attempt),
                               Printed("test_connectivity_with_retries", "retrying", attempt)>>
            /\ pc' = "conn_sleep"
            /\ UNCHANGED <<ret, exit_status>>
        ELSE
            /\ log' = log \o <<HttpProbe(o, attempt)>>
                          \o (IF cmd.name = "test-pod"
                              THEN <<Printed("test_pod", "FAIL", 0)>> ELSE <<>>)
            /\ TesterReturns(test_connectivity(o))
    /\ UNCHANGED <<cmd, environ, perm, nodes_list, cni_type, node_count, pod, attempt,
                   max_retries>>

\* BackoffMs doubling instead of growing by one unit
BackoffMs_Exponential(a) == BackoffUnitMs * 2 ^ (a - 1)

\* Duration::from_millis(1000 * attempt as u64)
BackoffMs(a) == BackoffUnitMs * a

\* tokio::time::sleep(..).await, then the next iteration
ConnSleep ==
    /\ pc = "conn_sleep"
    /\ log' = Append(log, Sleep(BackoffMs(attempt)))
    /\ pc' = "conn_loop"
    /\ UNCHANGED <<cmd, environ, perm, ret, exit_status, nodes_list, cni_type, node_count,
                   pod, attempt, max_retries>>

Next ==
    \/ MainValidateEnvironment
    \/ MainDispatch
    \/ AccessCreateClient
    \/ AccessNodes
    \/ AccessPodsList
    \/ AccessPodsListAgain
    \/ AccessPodsGet
    \/ AccessServices
    \/ AccessEndpoints
    \/ AccessNamespaces
    \/ MainAfterAccess
    \/ NsExistsCreateClient
    \/ NsExistsGet
    \/ DiagCreateClient
    \/ DiagDetectCni
    \/ DiagCountNodes
    \/ DiagCountPods
    \/ TpCreateClient
    \/ TpGetPod
    \/ TpCheckPhase
    \/ TpCheckIp
    \/ ConnLoop
    \/ ConnAttempt
    \/ ConnSleep

Spec == Init /\ [][Next]_vars

\* The run is one task on the tokio runtime and every await in it completes
\* (with an answer, an error or, where there is a deadline, a timeout), so a
\* step that is possible is eventually taken.
FairSpec == Spec /\ WF_vars(Next)

(***************************************************************************)
(* The run against a cluster that may leave a call without any answer.     *)
(* Where the call is wrapped in tokio::time::timeout the deadline elapses  *)
(* (TimeoutOut, in the actions above); where it is awaited bare, as in     *)
(* validate_kubernetes_access and validate_namespace_exists, nothing in    *)
(* the program ends the await.                                             *)
(***************************************************************************)
\* no answer arrives
NoAnswer == [t |-> "none", code |-> 0]

\* the call each bare await of the prober and of validate_namespace_exists
\* is waiting for
BareAwaits ==
    [access_nodes |-> ApiCall("validate_nodes_access", "nodes", "list",
                              ClusterScope, 1, NoAnswer, 0, ""),
     access_pods_list |-> ApiCall("validate_pods_access", "pods", "list",
                                  Namespaced(NsDefault), 1, NoAnswer, 0, ""),
     access_pods_list2 |-> ApiCall("validate_pods_access", "pods", "list",
                                   Namespaced(NsDefault), 1, NoAnswer, 0, ""),
     access_pods_get |-> ApiCall("validate_pods_access", "pods", "get",
                                 Namespaced(NsDefault), 0, NoAnswer, 0, "named"),
     access_services |-> ApiCall("validate_services_access", "services", "list",
                                 Namespaced(NsDefault), 1, NoAnswer, 0, ""),
     access_endpoints |-> ApiCall("validate_endpoints_access", "endpoints", "list",
                                  Namespaced(NsDefault), 1, NoAnswer, 0, ""),
     access_namespaces |-> ApiCall("validate_namespaces_access", "namespaces", "list",
                                   ClusterScope, 1, NoAnswer, 0, ""),
     ns_exists_get |-> ApiCall("validate_namespace_exists", "namespaces", "get",
                               ClusterScope, 0, NoAnswer, 0, "")]

\* AwaitUnanswered with the next call started beside the unanswered one
AwaitUnanswered_StartsNext ==
    /\ pc \in DOMAIN BareAwaits
    /\ log' = Append(log, BareAwaits[pc])
    /\ pc' = IF \E i \in 1..Len(log) : log[i].out = "none" THEN "hung" ELSE pc
    /\ UNCHANGED <<cmd, environ, perm, ret, exit_status, nodes_list, cni_type,
                   node_count, pod, attempt, max_retries>>

\* a bare .await on a call that is never answered: the run stays in it
AwaitUnanswered ==
    /\ pc \in DOMAIN BareAwaits
    /\ log' = Append(log, BareAwaits[pc])
    /\ pc' = "hung"
    /\ UNCHANGED <<cmd, environ, perm, ret, exit_status, nodes_list, cni_type,
                   node_count, pod, attempt, max_retries>>

NextSilent == Next \/ AwaitUnanswered

SpecSilent == Init /\ [][NextSilent]_vars

(***************************************************************************)
(* test_connectivity_with_retries on its own: every budget within the      *)
(* bounds.                                                                 *)
(***************************************************************************)
InitTester ==
    /\ pc = "conn_loop"
    /\ cmd = MkCmd("test_connectivity_with_retries", FALSE, <<>>, <<>>)
    /\ environ \in {e \in Environments : e.kubeconfig_set /\ e.kubeconfig_exists}
    /\ log = <<>>
    /\ ret = NoReturns
    /\ exit_status = -1
    /\ nodes_list = <<>>
    /\ cni_type = ""
    /\ node_count = -1
    /\ pod = MkPod(TRUE, TRUE, "Running", TRUE, IpV4)
    /\ attempt = 0
    /\ max_retries \in 0..MaxRetries
    /\ perm = NoPerm

NextTester == ConnLoop \/ ConnAttempt \/ ConnSleep

SpecTester == InitTester /\ [][NextTester]_vars

\* the tester with its awaits completing: the probe answers or runs into
\* reqwest's 10 s timeout, the sleep ends
FairSpecTester == SpecTester /\ WF_vars(NextTester)

(***************************************************************************)
(* detect_cni on its own: every node list within the bounds.               *)
(***************************************************************************)
InitCni ==
    /\ pc = "detect_cni"
    /\ cmd = MkCmd("detect_cni", FALSE, <<>>, <<>>)
    /\ environ \in {e \in Environments : e.kubeconfig_set /\ e.kubeconfig_exists}
    /\ log = <<>>
    /\ ret = NoReturns
    /\ exit_status = -1
    /\ nodes_list \in NodeLists
    /\ cni_type = ""
    /\ node_count = -1
    /\ pod = NoPod
    /\ attempt = 0
    /\ max_retries = 0
    /\ perm = NoPerm

\* detect_cni from the listed nodes to its return
DetectCni ==
    /\ pc = "detect_cni"
    /\ cni_type' = DetectCniOf(nodes_list)
    /\ pc' = "cni_returned"
    /\ UNCHANGED <<cmd, environ, perm, log, ret, exit_status, nodes_list, node_count,
                   pod, attempt, max_retries>>

NextCni == DetectCni

SpecCni == InitCni /\ [][NextCni]_vars

(***************************************************************************)
(* NetInspectError::exit_code on its own: every variant, with messages and *)
(* status codes as the program constructs them.                            *)
(***************************************************************************)
\* messages an error is constructed with
ErrorMessages ==
    {"", "Kubernetes API access denied", "Pod name cannot be empty", "HTTP status",
     "No kubeconfig found"}

\* every NetInspectError within these messages; the error is held in ret.main
ErrorValues ==
    {ErrCode(k, m, c) : k \in ErrorKinds, m \in ErrorMessages, c \in {0} \cup ApiCodes}

InitExit ==
    /\ pc = "exit_code"
    /\ cmd = MkCmd("exit_code", FALSE, <<>>, <<>>)
    /\ environ \in {e \in Environments : e.kubeconfig_set /\ e.kubeconfig_exists}
    /\ log = <<>>
    /\ \E e \in ErrorValues : ret = [NoReturns EXCEPT !.main = e]
    /\ exit_status = -1
    /\ nodes_list = <<>>
    /\ cni_type = ""
    /\ node_count = -1
    /\ pod = NoPod
    /\ attempt = 0
    /\ max_retries = 0
    /\ perm = NoPerm

\* e.exit_code() for the error held in ret.main
ExitCode ==
    /\ pc = "exit_code"
    /\ exit_status' = exit_code(ret.main.kind)
    /\ pc' = "exit_code_returned"
    /\ UNCHANGED <<cmd, environ, perm, log, ret, nodes_list, cni_type, node_count, pod,
                   attempt, max_retries>>

NextExit == ExitCode

SpecExit == InitExit /\ [][NextExit]_vars

(***************************************************************************)
(* validate_specific_permission (validation.rs) on its own: every resource *)
(* and verb list within the bounds.                                        *)
(***************************************************************************)
\* the arms of `match resource`
PermResources == {"pods", "nodes", "services", "namespaces"}
\* resource strings the function is called with: its arms, a resource of the
\* prober it has no arm for, and a string that names no resource
ResourceInputs == PermResources \cup {"endpoints", "invalid_resource"}
\* verb strings the function is called with: its arms and a string of no arm
VerbInputs == {"list", "get", "invalid_verb"}

InitPerm ==
    /\ pc = "perm_client"
    /\ \E hn \in BOOLEAN :
        cmd = MkCmd("validate_specific_permission", hn,
                    IF hn THEN NsKubeSystem ELSE <<>>, <<>>)
    /\ environ \in {e \in Environments : e.kubeconfig_set /\ e.kubeconfig_exists}
    /\ log = <<>>
    /\ ret = NoReturns
    /\ exit_status = -1
    /\ nodes_list = <<>>
    /\ cni_type = ""
    /\ node_count = -1
    /\ pod = NoPod
    /\ attempt = 0
    /\ max_retries = 0
    /\ \E r \in ResourceInputs, vs \in SeqsUpTo(VerbInputs, MaxVerbs) :
        perm = [resource |-> r, verbs |-> vs, next |-> 1]

\* validate_specific_permission returns r
PermReturns(r) ==
    /\ ret' = [ret EXCEPT !.validate_specific_permission = r]
    /\ pc' = "perm_returned"

\* the Api handle of the resource: namespaced (the given namespace, or the
\* client's default one) for pods and services, cluster-wide for nodes and
\* namespaces
PermScope ==
    IF perm.resource \in {"pods", "services"}
    THEN Namespaced(IF cmd.has_namespace THEN cmd.namespace ELSE NsDefault)
    ELSE ClusterScope

\* Client::try_default().await.map_err(..)?
PermCreateClient ==
    /\ pc = "perm_client"
    /\ \E o \in {OkOut, ConfigErr} :
        /\ log' = Append(log, ClientCreate("validate_specific_permission", o))
        /\ IF o.t = "ok" THEN pc' = "perm_verbs" /\ UNCHANGED ret
           ELSE PermReturns(Err("KubernetesConnection",
                                "Failed to create Kubernetes client"))
    /\ UNCHANGED <<cmd, environ, perm, exit_status, nodes_list, cni_type, node_count,
                   pod, attempt, max_retries>>

\* PermNextVerb without the "get" arm of `match *verb`
PermNextVerb_NoGetArm ==
    /\ pc = "perm_verbs"
    /\ IF perm.resource \notin PermResources THEN
            PermReturns(Err("InvalidInput", "Unsupported resource for permission validation"))
       ELSE IF perm.next > Len(perm.verbs) THEN PermReturns(Ok)
       ELSE IF perm.verbs[perm.next] = "list" THEN pc' = "perm_list" /\ UNCHANGED ret
       ELSE PermReturns(Err("InvalidInput", "Unsupported verb for resource validation"))
    /\ UNCHANGED <<cmd, environ, perm, log, exit_status, nodes_list, cni_type,
                   node_count, pod, attempt, max_retries>>

\* match resource, and one step of `for verb in verbs { match *verb`
PermNextVerb ==
    /\ pc = "perm_verbs"
    /\ IF perm.resource \notin PermResources THEN
            PermReturns(Err("InvalidInput", "Unsupported resource for permission validation"))
       ELSE IF perm.next > Len(perm.verbs) THEN PermReturns(Ok)
       ELSE IF perm.verbs[perm.next] = "list" THEN pc' = "perm_list" /\ UNCHANGED ret
       ELSE IF perm.verbs[perm.next] = "get" THEN pc' = "perm_get_list" /\ UNCHANGED ret
       ELSE PermReturns(Err("InvalidInput", "Unsupported verb for resource validation"))
    /\ UNCHANGED <<cmd, environ, perm, log, exit_status, nodes_list, cni_type,
                   node_count, pod, attempt, max_retries>>

\* PermDenied with the 403 not looked at
PermDenied_Never(o) == FALSE

\* the only answer the function makes an error of: Err(kube::Error::Api) with code 403
PermDenied(o) == o.t = "api" /\ o.code = 403

\* the loop goes on with the next verb
PermVerbDone ==
    /\ perm' = [perm EXCEPT !.next = perm.next + 1]
    /\ pc' = "perm_verbs"
    /\ UNCHANGED ret

\* verb "list": a list capped at one item; only a 403 is an error
PermList ==
    /\ pc = "perm_list"
    /\ \E o \in {OkOut} \cup KubeErrors :
        /\ log' = Append(log, ApiCall("validate_specific_permission", perm.resource,
                                      "list", PermScope, 1, o, 0, ""))
        /\ IF PermDenied(o)
           THEN /\ PermReturns(ErrCode("PermissionDenied", "Missing RBAC permission", 403))
                /\ UNCHANGED perm
           ELSE PermVerbDone
    /\ UNCHANGED <<cmd, environ, exit_status, nodes_list, cni_type, node_count, pod,
                   attempt, max_retries>>

\* verb "get": the list capped at one item whose first item's name is read;
\* `if let Ok(..)`: an error of this list ends the verb
PermGetList ==
    /\ pc = "perm_get_list"
    /\ \/ \E item \in {"none", "named", "unnamed"} :
            /\ log' = Append(log, ApiCall("validate_specific_permission", perm.resource,
                                          "list", PermScope, 1, OkOut,
                                          IF item = "none" THEN 0 ELSE 1, item))
            /\ IF item = "named" THEN pc' = "perm_get" /\ UNCHANGED <<ret, perm>>
               ELSE PermVerbDone
       \/ \E o \in KubeErrors :
            /\ log' = Append(log, ApiCall("validate_specific_permission", perm.resource,
                                          "list", PermScope, 1, o, 0, ""))
            /\ PermVerbDone
    /\ UNCHANGED <<cmd, environ, exit_status, nodes_list, cni_type, node_count, pod,
                   attempt, max_retries>>

\* verb "get": the get of the first listed object's name; only a 403 is an error
PermGet ==
    /\ pc = "perm_get"
    /\ \E o \in {OkOut} \cup KubeErrors :
        /\ log' = Append(log, ApiCall("validate_specific_permission", perm.resource,
                                      "get", PermScope, 0, o, 0, "named"))
        /\ IF PermDenied(o)
           THEN /\ PermReturns(ErrCode("PermissionDenied", "Missing RBAC permission", 403))
                /\ UNCHANGED perm
           ELSE PermVerbDone
    /\ UNCHANGED <<cmd, environ, exit_status, nodes_list, cni_type, node_count, pod,
                   attempt, max_retries>>

NextPerm ==
    \/ PermCreateClient
    \/ PermNextVerb
    \/ PermList
    \/ PermGetList
    \/ PermGet

SpecPerm == InitPerm /\ [][NextPerm]_vars

(***************************************************************************)
(* The error conversions (errors.rs) and one test_connectivity on their    *)
(* own: every error status of the API, every status of a response, every   *)
(* variant of the errors.                                                  *)
(***************************************************************************)
\* what an API call can fail with: ErrorResponse codes 400..599, and the
\* variants of kube::Error the conversion has arms for
KubeErrorInputs ==
    {[t |-> "api", code |-> c] : c \in 400..599}
    \cup {[t |-> x, code |-> 0] : x \in {"http", "auth", "discovery", "config"}}

\* what one HTTP probe can meet: a response of any status 100..599, or no response
HttpOutcomeInputs ==
    {[t |-> "status", code |-> c] : c \in 100..599}
    \cup {[t |-> x, code |-> 0] : x \in {"build", "timeout", "connect", "other"}}

\* the failed API call, or the HTTP probe, is the one entry of the log
InitClassify ==
    /\ pc = "classify"
    /\ cmd = MkCmd("classify", FALSE, <<>>, <<>>)
    /\ environ \in {e \in Environments : e.kubeconfig_set /\ e.kubeconfig_exists}
    /\ \/ \E o \in KubeErrorInputs :
            log = <<ApiCall("get_cluster_nodes", "nodes", "list", ClusterScope, 0, o, 0, "")>>
       \/ \E o \in HttpOutcomeInputs : log = <<HttpProbe(o, 1)>>
    /\ ret = NoReturns
    /\ exit_status = -1
    /\ nodes_list = <<>>
    /\ cni_type = ""
    /\ node_count = -1
    /\ pod = NoPod
    /\ attempt = 0
    /\ max_retries = 0
    /\ perm = NoPerm

\* .map_err(NetInspectError::from) on the kube::Error of the call
ConvertKubeError ==
    /\ pc = "classify"
    /\ log[1].op = "api"
    /\ ret' = [ret EXCEPT !.main = FromKubeError([t |-> log[1].out, code |-> log[1].code])]
    /\ pc' = "classified"
    /\ UNCHANGED <<cmd, environ, perm, log, exit_status, nodes_list, cni_type,
                   node_count, pod, attempt, max_retries>>

\* test_connectivity's Result for what its probe met
ClassifyProbe ==
    /\ pc = "classify"
    /\ log[1].op = "http"
    /\ ret' = [ret EXCEPT !.main = test_connectivity([t |-> log[1].out, code |-> log[1].code])]
    /\ pc' = "classified"
    /\ UNCHANGED <<cmd, environ, perm, log, exit_status, nodes_list, cni_type,
                   node_count, pod, attempt, max_retries>>

NextClassify == ConvertKubeError \/ ClassifyProbe

SpecClassify == InitClassify /\ [][NextClassify]_vars

(***************************************************************************)
(* The input validators as pure functions (validation.rs 13-118): the      *)
(* argument is drawn from a bounded set of strings, the validator named by  *)
(* cmd.name is applied to it once.                                          *)
(***************************************************************************)
\* the longest string drawn character by character
MaxNameLen == 4

\* one character of each class the patterns tell apart
NameAlphabet == {"a", "0", "-", ".", "A", "_"}

\* "c".repeat(n)
Repeat(c, n) == [i \in 1..n |-> c]
\* "a.a.a ... " of length n
Dotted(n) == [i \in 1..n |-> IF i % 2 = 0 THEN "." ELSE "a"]

\* every string over NameAlphabet up to MaxNameLen, and the strings at the
\* length limits (tests/validation_tests.rs 37, 75, 125, 128)
NameInputs ==
    UNION {[1..n -> NameAlphabet] : n \in 0..MaxNameLen}
    \cup {Repeat("a", n) : n \in {NamespaceMaxLen - 1, NamespaceMaxLen, NamespaceMaxLen + 1,
                                  PodNameMaxLen - 1, PodNameMaxLen, PodNameMaxLen + 1}}
    \cup {Dotted(n) : n \in {NamespaceMaxLen, PodNameMaxLen, PodNameMaxLen + 2}}
    \cup {Repeat("a", NamespaceMaxLen - 1) \o <<c>> : c \in NameAlphabet}
    \cup {Repeat("a", PodNameMaxLen - 1) \o <<c>> : c \in NameAlphabet}

DigitChars == <<"0", "1", "2", "3", "4", "5", "6", "7", "8", "9">>
\* n.to_string() for 0 <= n <= 999
DecStr(n) ==
    IF n < 10 THEN <<DigitChars[n + 1]>>
    ELSE IF n < 100 THEN <<DigitChars[(n \div 10) + 1], DigitChars[(n % 10) + 1]>>
    ELSE <<DigitChars[(n \div 100) + 1], DigitChars[((n \div 10) % 10) + 1],
           DigitChars[(n % 10) + 1]>>

\* parts.join(sep)
RECURSIVE JoinWith(_, _)
JoinWith(parts, sep) ==
    IF Len(parts) = 0 THEN <<>>
    ELSE IF Len(parts) = 1 THEN parts[1]
    ELSE parts[1] \o <<sep>> \o JoinWith(Tail(parts), sep)

\* octet fields besides the decimal numbers
OddOctets == {<<>>, <<"0", "0">>, <<"0", "1">>, <<"0", "0", "7">>, <<"0", "9", "9">>,
              <<"1", "0", "0", "0">>, <<"0", "2", "5", "5">>, <<"a">>, <<"1", "a">>,
              <<"-", "1">>, <<" ", "1">>, <<"1", "\n">>}

\* dotted strings: every decimal 0..300 and every odd field in each of the four
\* positions, three to five fields, fields drawn from a few values
Ipv4Inputs ==
    {JoinWith([<<DecStr(10), DecStr(0), DecStr(0), DecStr(7)>> EXCEPT ![k] = f], ".") :
        k \in 1..4, f \in {DecStr(n) : n \in 0..300} \cup OddOctets}
    \cup {JoinWith(q, ".") :
            q \in UNION {[1..n -> {DecStr(0), DecStr(255), DecStr(256), <<"x">>}] : n \in 3..5}}

\* group fields of an IPv6 text
GroupInputs == {<<>>, <<"0">>, <<"f", "e", "8", "0">>, <<"F", "F", "F", "F">>,
                <<"a", "B", "9">>, <<"1", "2", "3", "4", "5">>, <<"g">>, <<"1", ".", "2">>}

\* colon strings: each group field in each position of a text of seven to nine
\* groups, and the compressed forms
Ipv6Inputs ==
    {JoinWith([[i \in 1..n |-> <<"0">>] EXCEPT ![k] = g], ":") :
        n \in 7..9, k \in 1..7, g \in GroupInputs}
    \cup {IpV6Full, IpV6Compressed, <<":", ":">>, <<":", ":", "1">>,
          <<"1", ":", ":">>, JoinWith([i \in 1..8 |-> <<"0">>], ":") \o <<":">>}

IpInputs ==
    Ipv4Inputs \cup Ipv6Inputs
    \cup {<<>>, IpV4, <<"n", "o", "t", ".", "a", "n", ".", "i", "p", ".", "a", "d", "d", "r">>,
          JoinWith(<<DecStr(1), DecStr(2), DecStr(3), DecStr(4)>>, ":")}

\* the argument sits where the callers keep it: cli.pod, cli.namespace, pod_ip
InitValidate ==
    /\ pc = "validate"
    /\ \/ \E s \in NameInputs :
            /\ cmd = MkCmd("validate_pod_name", FALSE, <<>>, s)
            /\ pod = NoPod
       \/ \E s \in NameInputs :
            /\ cmd = MkCmd("validate_namespace", TRUE, s, <<>>)
            /\ pod = NoPod
       \/ \E s \in IpInputs :
            /\ cmd = MkCmd("validate_pod_ip", FALSE, <<>>, <<>>)
            /\ pod = MkPod(TRUE, FALSE, "", TRUE, s)
    /\ environ \in {e \in Environments : e.kubeconfig_set /\ e.kubeconfig_exists}
    /\ log = <<>>
    /\ ret = NoReturns
    /\ exit_status = -1
    /\ nodes_list = <<>>
    /\ cni_type = ""
    /\ node_count = -1
    /\ attempt = 0
    /\ max_retries = 0
    /\ perm = NoPerm

\* Validator::validate_pod_name(name)
ValidatePodName ==
    /\ pc = "validate"
    /\ cmd.name = "validate_pod_name"
    /\ ret' = [ret EXCEPT !.validate_pod_name = validate_pod_name(cmd.pod)]
    /\ pc' = "validated"
    /\ UNCHANGED <<cmd, environ, perm, log, exit_status, nodes_list, cni_type,
                   node_count, pod, attempt, max_retries>>

\* Validator::validate_namespace(namespace)
ValidateNamespace ==
    /\ pc = "validate"
    /\ cmd.name = "validate_namespace"
    /\ ret' = [ret EXCEPT !.validate_namespace = validate_namespace(cmd.namespace)]
    /\ pc' = "validated"
    /\ UNCHANGED <<cmd, environ, perm, log, exit_status, nodes_list, cni_type,
                   node_count, pod, attempt, max_retries>>

\* Validator::validate_pod_ip(ip): its Result is kept in ret.main
ValidatePodIp ==
    /\ pc = "validate"
    /\ cmd.name = "validate_pod_ip"
    /\ ret' = [ret EXCEPT !.main = validate_pod_ip(pod.pod_ip)]
    /\ pc' = "validated"
    /\ UNCHANGED <<cmd, environ, perm, log, exit_status, nodes_list, cni_type,
                   node_count, pod, attempt, max_retries>>

NextValidate == ValidatePodName \/ ValidateNamespace \/ ValidatePodIp

SpecValidate == InitValidate /\ [][NextValidate]_vars

(***************************************************************************)
(* Properties.                                                             *)
(***************************************************************************)
\* the functions of the permission prober that call the API
ProberFns ==
    {"validate_nodes_access", "validate_pods_access", "validate_services_access",
     "validate_endpoints_access", "validate_namespaces_access"}
\* the functions that run as part of commands::diagnose and commands::test_pod
DiagnoseFns == {"diagnose", "detect_cni", "get_cluster_nodes", "check_pods_in_namespace"}
TestPodFns == {"test_pod", "test_connectivity", "test_connectivity_with_retries"}

IsProberCall(e) == e.op = "api" /\ e.by \in ProberFns
Is403(e) == e.out = "api" /\ e.code = 403
\* the HTTP probes issued so far, in order
HttpProbes == SelectSeq(log, LAMBDA e : e.op = "http")
\* a probe answered with a 2xx status
ProbeSucceeded(e) == e.out = "status" /\ e.code >= 200 /\ e.code <= 299

\* C1: permission short-circuit. A prober call answered 403 is the last thing
\* the run issues: validate_kubernetes_access has returned PermissionDenied and
\* no API call (so no probe of a later resource) and no HTTP probe follows it.
C1_PermissionShortCircuit ==
    \A i \in 1..Len(log) :
        (IsProberCall(log[i]) /\ Is403(log[i])) =>
            /\ ret.validate_kubernetes_access.kind = "PermissionDenied"
            /\ \A j \in (i + 1)..Len(log) : log[j].op \notin {"api", "http", "client"}
            /\ pc \in {"access_returned", "exited"}
            /\ pc = "exited" => ret.main.kind = "PermissionDenied" /\ exit_status = 5

\* C1 witness: the nodes list was answered 403 and the run has exited
C1_Witness ==
    /\ pc = "exited"
    /\ \E i \in 1..Len(log) :
        IsProberCall(log[i]) /\ Is403(log[i]) /\ log[i].res = "nodes"

\* the prober's list calls so far, as <<resource, scope>>, in order
ProberLists ==
    LET calls == SelectSeq(log, LAMBDA e : IsProberCall(e) /\ e.verb = "list")
    IN [i \in 1..Len(calls) |-> <<calls[i].res, calls[i].scope>>]

\* s without the repetitions of an element right after itself
RECURSIVE Collapse(_)
Collapse(s) ==
    IF Len(s) <= 1 THEN s
    ELSE IF s[1] = s[2] THEN Collapse(Tail(s))
    ELSE <<s[1]>> \o Collapse(Tail(s))

FiveProbes ==
    <<  <<"nodes", ClusterScope>>, <<"pods", Namespaced(NsDefault)>>,
        <<"services", Namespaced(NsDefault)>>, <<"endpoints", Namespaced(NsDefault)>>,
        <<"namespaces", ClusterScope>>  >>

\* C2: validate_kubernetes_access returns Ok only if its list probes were
\* nodes (cluster), pods (default), services (default), endpoints (default),
\* namespaces (cluster), in this order, each capped at one item and each
\* answered without error.
C2_OkOnlyAfterFiveProbes ==
    ret.validate_kubernetes_access.ok =>
        /\ Collapse(ProberLists) = FiveProbes
        /\ \A i \in 1..Len(log) :
            (IsProberCall(log[i]) /\ log[i].verb = "list") =>
                log[i].out = "ok" /\ log[i].limit = 1

\* C2 witness: the prober has returned Ok
C2_Witness ==
    /\ pc = "access_returned"
    /\ ret.validate_kubernetes_access.ok
    /\ \E i \in 1..Len(log) : log[i].verb = "get"

\* something of commands::diagnose or commands::test_pod has run
CommandStarted ==
    \/ \E i \in 1..Len(log) : log[i].by \in DiagnoseFns \cup TestPodFns
    \/ pc \in {"diag_client", "diag_cni", "diag_nodes", "diag_pods", "tp_client",
               "tp_get", "tp_status", "tp_ip", "conn_loop", "conn_attempt",
               "conn_sleep"}
    \/ ret.diagnose # Pending
    \/ ret.test_pod # Pending

\* the gates main runs before the command
GateResults ==
    IF cmd.name = "diagnose" /\ cmd.has_namespace
    THEN {ret.validate_kubernetes_access, ret.validate_namespace,
          ret.validate_namespace_exists}
    ELSE {ret.validate_kubernetes_access}

\* C3: pre-flight gate. Nothing of diagnose or test_pod runs unless
\* validate_kubernetes_access (and, for diagnose with a namespace,
\* validate_namespace and validate_namespace_exists) returned Ok; a gate that
\* failed is the run's result and the command has not run.
C3_PreflightGate ==
    /\ CommandStarted => \A g \in GateResults : g.ok
    /\ \A g \in GateResults :
        (g # Pending /\ ~g.ok /\ pc = "exited") =>
            ret.main = g /\ ~CommandStarted /\ exit_status = exit_code(g.kind)

\* C3 witness: diagnose with a namespace has run after all three gates
C3_Witness ==
    /\ pc = "exited"
    /\ cmd.name = "diagnose"
    /\ cmd.has_namespace
    /\ ret.diagnose # Pending
    /\ \E i \in 1..Len(log) : log[i].by = "check_pods_in_namespace"

\* a step of diagnose has completed without error and without timeout
StepOk(fn) == \E i \in 1..Len(log) : log[i].op = "api" /\ log[i].by = fn /\ log[i].out = "ok"
StepDone(fn) == \E i \in 1..Len(log) : log[i].op = "api" /\ log[i].by = fn

\* C4: diagnose returns Ok exactly when step 1 (the node list of detect_cni)
\* and step 2 (the node count) both completed without error and timeout; a
\* count of zero is no failure, and once step 3 has run, whatever it met,
\* diagnose has returned Ok.
C4_DiagnoseOutcome ==
    /\ ret.diagnose # Pending =>
          (ret.diagnose.ok <=> (StepOk("detect_cni") /\ StepOk("get_cluster_nodes")))
    /\ (StepOk("detect_cni") /\ StepOk("get_cluster_nodes")) =>
          \/ pc = "diag_pods" /\ ret.diagnose = Pending
          \/ pc = "exited" /\ ret.diagnose = Ok /\ StepDone("check_pods_in_namespace")
    /\ StepDone("check_pods_in_namespace") =>
          ret.diagnose = Ok /\ ret.main = Ok /\ exit_status = 0

\* C4 witness: zero nodes counted and the pod count timed out, diagnose returned
C4_Witness ==
    /\ pc = "exited"
    /\ node_count = 0
    /\ ret.diagnose # Pending
    /\ \E i \in 1..Len(log) :
        log[i].by = "check_pods_in_namespace" /\ log[i].out = "timeout"

\* test_pod has fetched the pod
PodFetched ==
    \E i \in 1..Len(log) : log[i].op = "api" /\ log[i].by = "test_pod" /\ log[i].out = "ok"
NotRunningPhase == pod.has_phase /\ pod.phase \in {"Pending", "Failed", "Succeeded"}

\* C5: once test_pod has looked at the phase of a fetched pod with a status:
\* for Pending, Failed or Succeeded it has returned ResourceNotFound and no
\* HTTP probe is ever issued; for any other phase (or none) it has gone on to
\* the pod_ip checks.
C5_PhaseGate ==
    (PodFetched /\ pod.has_status /\ pc # "tp_status") =>
        IF NotRunningPhase
        THEN /\ pc = "exited"
             /\ ret.test_pod.kind = "ResourceNotFound"
             /\ ret.main = ret.test_pod
             /\ Len(HttpProbes) = 0
        ELSE \/ pc \in {"tp_ip", "conn_loop", "conn_attempt", "conn_sleep"}
             \/ /\ pc = "exited"
                /\ \/ ret.test_pod.msg = "Pod has no IP address assigned"
                   \/ ret.test_pod = validate_pod_ip(pod.pod_ip) /\ pod.has_pod_ip
                   \/ ret.test_pod = ret.test_connectivity_with_retries

\* C5 witness: a Pending pod with an IP address was refused
C5_Witness ==
    /\ pc = "exited"
    /\ PodFetched
    /\ pod.has_status /\ pod.has_phase /\ pod.phase = "Pending"
    /\ pod.has_pod_ip

\* C6: for a budget of at least one the tester issues attempts numbered 1, 2,
\* ... and never more than max_retries of them, none after a successful one,
\* and it returns Ok exactly when one of them succeeded.
C6_RetryOutcome ==
    max_retries >= 1 =>
        /\ Len(HttpProbes) <= max_retries
        /\ \A k \in 1..Len(HttpProbes) : HttpProbes[k].n = k
        /\ \A k \in 1..(Len(HttpProbes) - 1) : ~ProbeSucceeded(HttpProbes[k])
        /\ ret.test_connectivity_with_retries # Pending =>
              (ret.test_connectivity_with_retries.ok
                  <=> \E k \in 1..Len(HttpProbes) : ProbeSucceeded(HttpProbes[k]))
        /\ (\E k \in 1..Len(HttpProbes) : ProbeSucceeded(HttpProbes[k])) =>
              ret.test_connectivity_with_retries = Ok

\* C6 witness: budget 3, attempts 1 and 2 failed, attempt 3 succeeded
C6_Witness ==
    /\ max_retries = 3
    /\ Len(HttpProbes) = 3
    /\ ret.test_connectivity_with_retries = Ok

\* the error test_connectivity makes of a logged probe
ProbeError(e) == test_connectivity([t |-> e.out, code |-> e.code])

\* C7: when the tester returns an error, all max_retries attempts were made
\* and failed, and the error is the one of the last attempt.
C7_FinalAttemptError ==
    (ret.test_connectivity_with_retries # Pending
        /\ ~ret.test_connectivity_with_retries.ok) =>
        /\ Len(HttpProbes) = max_retries
        /\ HttpProbes[max_retries].n = max_retries
        /\ ret.test_connectivity_with_retries = ProbeError(HttpProbes[max_retries])

\* C7 witness: three failures, the first a timeout, the last an HTTP 503
C7_Witness ==
    /\ max_retries = 3
    /\ Len(HttpProbes) = 3
    /\ HttpProbes[1].out = "timeout"
    /\ HttpProbes[3].code = 503
    /\ ret.test_connectivity_with_retries.kind = "NetworkConnectivity"
    /\ ret.test_connectivity_with_retries.code = 503

\* the probes and suspends so far, in order
ProbesAndSleeps == SelectSeq(log, LAMBDA e : e.op \in {"http", "sleep"})

\* C8: linear backoff. Every suspend directly follows a failed attempt i with
\* i < max_retries and lasts i * 1000 ms; every such failed attempt is
\* followed by that suspend before anything else, and attempt i + 1 follows
\* it; nothing precedes attempt 1 and nothing follows a successful attempt or
\* the failed attempt max_retries.
C8_LinearBackoff ==
    LET t == ProbesAndSleeps
    IN /\ Len(t) >= 1 => t[1].op = "http" /\ t[1].n = 1
       /\ \A j \in 1..Len(t) :
            t[j].op = "sleep" =>
                /\ j > 1
                /\ t[j - 1].op = "http"
                /\ ~ProbeSucceeded(t[j - 1])
                /\ t[j - 1].n < max_retries
                /\ t[j].n = t[j - 1].n * 1000
                /\ j < Len(t) => t[j + 1].op = "http" /\ t[j + 1].n = t[j - 1].n + 1
       /\ \A j \in 1..Len(t) :
            t[j].op = "http" =>
                IF ~ProbeSucceeded(t[j]) /\ t[j].n < max_retries
                THEN IF j < Len(t) THEN t[j + 1].op = "sleep" ELSE pc = "conn_sleep"
                ELSE j = Len(t) /\ pc \in {"exited", "tester_returned"}

\* C8 witness: budget 4, suspends of 1000, 2000 and 3000 ms, then attempt 4
C8_Witness ==
    /\ max_retries = 4
    /\ Len(ProbesAndSleeps) = 7
    /\ ProbesAndSleeps[2].op = "sleep" /\ ProbesAndSleeps[2].n = 1000
    /\ ProbesAndSleeps[4].op = "sleep" /\ ProbesAndSleeps[4].n = 2000
    /\ ProbesAndSleeps[6].op = "sleep" /\ ProbesAndSleeps[6].n = 3000
    /\ ProbesAndSleeps[7].op = "http"

\* a node's annotation keys contain one of the CNI markers
HasMarker(node) ==
    /\ node.has_annotations
    /\ \E k \in node.annotation_keys :
        \E m \in {S_calico, S_projectcalico, S_flannel, S_weave, S_cilium} : Contains(k, m)

\* every listed node carries status and status.node_info, as the nodes of a
\* running cluster do
AllNodesReport ==
    \A i \in 1..Len(nodes_list) : nodes_list[i].has_status /\ nodes_list[i].has_node_info

\* C9: CNI first-match. detect_cni returns the canonical name of the first
\* node, in list order, whose annotation keys contain a CNI marker, whatever
\* the other nodes are (stated for lists whose nodes all carry node_info).
C9_FirstAnnotatedNodeWins ==
    (pc = "cni_returned" /\ AllNodesReport) =>
        \A i \in 1..Len(nodes_list) :
            (HasMarker(nodes_list[i]) /\ \A j \in 1..(i - 1) : ~HasMarker(nodes_list[j]))
                => cni_type = AnnotationCni(nodes_list[i])

\* C10: the runtime fallback is used only when no node of the list has a
\* matching annotation: with a marker on any node, detect_cni returns no
\* "Generic CNI (<runtime>)" label but the name of the first node with a
\* marker (stated for lists whose nodes all carry node_info).
C10_FallbackOnlyWithoutMarkers ==
    (pc = "cni_returned" /\ AllNodesReport) =>
        \A i \in 1..Len(nodes_list) :
            HasMarker(nodes_list[i]) =>
                /\ cni_type \notin {"Generic CNI (containerd)", "Generic CNI (docker)"}
                /\ cni_type \in {"Calico", "Flannel", "Weave Net", "Cilium"}

\* the Strings detect_cni can return
CniLabels ==
    {"No nodes available for CNI detection", "Unknown CNI", "Calico", "Flannel",
     "Weave Net", "Cilium", "Generic CNI (containerd)", "Generic CNI (docker)"}

\* a node's runtime version contains "containerd" or "docker"
HasRuntimeSignal(node) ==
    \/ Contains(node.container_runtime_version, S_containerd)
    \/ Contains(node.container_runtime_version, S_docker)

\* C11: CNI detection is total over node lists. For every node list detect_cni
\* returns one of its Strings (never nothing, never an error); the empty list
\* gives "No nodes available for CNI detection"; a non-empty list in which no
\* node has a marker in its annotation keys or "containerd"/"docker" in its
\* runtime version gives "Unknown CNI".
C11_CniDetectionTotal ==
    pc = "cni_returned" =>
        /\ cni_type \in CniLabels
        /\ Len(nodes_list) = 0 <=> cni_type = "No nodes available for CNI detection"
        /\ (/\ Len(nodes_list) > 0
            /\ \A i \in 1..Len(nodes_list) :
                  ~HasMarker(nodes_list[i]) /\ ~HasRuntimeSignal(nodes_list[i]))
              => cni_type = "Unknown CNI"

\* C11 witness: every listed node runs cri-o and carries only a hostname annotation
C11_Witness ==
    /\ pc = "cni_returned"
    /\ Len(nodes_list) = MaxNodes
    /\ \A i \in 1..Len(nodes_list) :
          /\ nodes_list[i].container_runtime_version = RtCrio
          /\ nodes_list[i].annotation_keys = {KeyHostname}
    /\ cni_type = "Unknown CNI"

\* the table of exit codes by error kind
ExitCodeTable ==
    [k \in ErrorKinds |->
        IF k = "PermissionDenied" THEN 5
        ELSE IF k \in {"ResourceNotFound", "Timeout", "NetworkConnectivity"} THEN 4
        ELSE IF k = "KubernetesConnection" THEN 3
        ELSE IF k \in {"Configuration", "InvalidInput"} THEN 2
        ELSE 1]

\* C12: exit_code is total and depends on the error kind alone: for every
\* error, whatever its message and status code, exit_code gives
\* PermissionDenied 5, ResourceNotFound 4, Timeout 4, NetworkConnectivity 4,
\* KubernetesConnection 3, Configuration 2, InvalidInput 2, Runtime 1, and
\* never 0.
C12_ExitCodeTable ==
    pc = "exit_code_returned" =>
        /\ ret.main.kind \in ErrorKinds
        /\ exit_status = ExitCodeTable[ret.main.kind]
        /\ exit_status \in 1..5

\* C12 witness: a Timeout error with a message and a status code gave 4
C12_Witness ==
    /\ pc = "exit_code_returned"
    /\ ret.main.kind = "Timeout"
    /\ ret.main.msg = "HTTP status"
    /\ ret.main.code = 500
    /\ exit_status = 4

\* the validations and the command main runs for the parsed command line, in
\* the order of the source
StageOrder ==
    IF cmd.name = "version" THEN <<"validate_environment">>
    ELSE IF cmd.name = "test-pod" THEN
        <<"validate_environment", "validate_pod_name", "validate_namespace",
          "validate_kubernetes_access", "test_pod">>
    ELSE IF cmd.has_namespace THEN
        <<"validate_environment", "validate_kubernetes_access", "validate_namespace",
          "validate_namespace_exists", "diagnose">>
    ELSE <<"validate_environment", "validate_kubernetes_access", "diagnose">>

\* the stages that have returned an error
FailedStages ==
    {i \in 1..Len(StageOrder) :
        ret[StageOrder[i]] # Pending /\ ~ret[StageOrder[i]].ok}

\* C13 (state part): a stage has run only if all stages before it returned Ok,
\* so at most one stage has failed; at the exit the code is 0 exactly when
\* every stage returned Ok, and otherwise it is exit_code of the kind of the
\* one failed stage, which is main's result.
SingleFailureExit ==
    /\ \A i, j \in 1..Len(StageOrder) :
          (i < j /\ ret[StageOrder[j]] # Pending) => ret[StageOrder[i]].ok
    /\ Cardinality(FailedStages) <= 1
    /\ pc = "exited" <=> exit_status # -1
    /\ pc = "exited" =>
          /\ exit_status \in 0..5
          /\ exit_status = 0 <=> \A i \in 1..Len(StageOrder) : ret[StageOrder[i]].ok
          /\ \A i \in FailedStages :
                /\ exit_status = exit_code(ret[StageOrder[i]].kind)
                /\ i > 1 => ret.main = ret[StageOrder[i]]

\* C13 (step part): nothing happens after the exit, and once a stage has
\* failed nothing more is issued or printed and no further step but the exit
\* is taken.
FailurePropagates ==
    /\ pc # "exited"
    /\ FailedStages # {} => (log' = log /\ pc' = "exited")

ClusterCalled == \E i \in 1..Len(log) : log[i].op \in {"api", "client"}

\* the command line carries a name the syntactic validators reject
MalformedInput ==
    \/ cmd.name = "test-pod" /\ ~validate_pod_name(cmd.pod).ok
    \/ cmd.name = "test-pod" /\ ~validate_namespace(cmd.namespace).ok
    \/ cmd.name = "diagnose" /\ cmd.has_namespace /\ ~validate_namespace(cmd.namespace).ok

\* C14: inputs are validated before any network call. In a run of test-pod,
\* or of diagnose with a namespace, the cluster is called (the permission
\* probes included) only after validate_namespace, and for test-pod
\* validate_pod_name, have returned Ok; with a malformed name the run makes no
\* call at all and, the environment check passed, ends with InvalidInput.
C14_InputsValidatedFirst ==
    (cmd.name = "test-pod" \/ (cmd.name = "diagnose" /\ cmd.has_namespace)) =>
        /\ ClusterCalled =>
              /\ ret.validate_namespace = Ok
              /\ cmd.name = "test-pod" => ret.validate_pod_name = Ok
        /\ MalformedInput => ~ClusterCalled
        /\ (MalformedInput /\ pc = "exited" /\ ret.validate_environment.ok) =>
              ret.main.kind = "InvalidInput" /\ exit_status = 2

\* the kubeconfig file the environment requires is absent: the file KUBECONFIG
\* names if the variable is set, else the default $HOME/.kube/config (which
\* there is none of when HOME is unset)
RequiredFileAbsent ==
    IF environ.kubeconfig_set THEN ~environ.kubeconfig_exists
    ELSE ~(environ.home_set /\ environ.default_exists)

\* C15: environment check. The cluster is called only after
\* validate_environment returned Ok; validate_environment returns Ok only if
\* the required kubeconfig file exists, and whenever it is absent (KUBECONFIG
\* unset with no usable default path included) it returns a Configuration
\* error and main exits with code 2 having made no cluster call.
C15_EnvironmentCheck ==
    /\ ClusterCalled => ret.validate_environment.ok
    /\ ret.validate_environment # Pending =>
          IF RequiredFileAbsent
          THEN /\ ret.validate_environment.kind = "Configuration"
               /\ pc = "exited"
               /\ exit_status = 2
               /\ ~ClusterCalled
          ELSE ret.validate_environment = Ok

\* the error kind of a failed API call: 401 and 403 PermissionDenied, 404
\* ResourceNotFound, any other status and a transport error KubernetesConnection
MappedKind(e) ==
    IF e.out = "api" /\ e.code \in {401, 403} THEN "PermissionDenied"
    ELSE IF e.out = "api" /\ e.code = 404 THEN "ResourceNotFound"
    ELSE "KubernetesConnection"

\* C16: in validate_kubernetes_access every error of a probe call, the get of
\* the first listed pod included, propagates: once a list or get of the
\* prober was answered with an error the prober has returned an Err, of the
\* mapped kind for an API status or a transport error, and the prober never
\* returns Ok after one of its calls failed.
C16_ProbeErrorsPropagate ==
    \A i \in 1..Len(log) :
        (IsProberCall(log[i]) /\ log[i].out # "ok") =>
            /\ ret.validate_kubernetes_access # Pending
            /\ ~ret.validate_kubernetes_access.ok
            /\ log[i].out \in {"api", "http"} =>
                  ret.validate_kubernetes_access.kind = MappedKind(log[i])

\* the list and get calls validate_specific_permission has issued
IsPermCall(e) == e.op = "api" /\ e.by = "validate_specific_permission"

\* C17: no path swallows an error. When validate_specific_permission has
\* returned and one of its list or get calls had failed (with any status or
\* a transport error), it has returned an Err of one of the error kinds, not Ok.
C17_NoSwallowedError ==
    (ret.validate_specific_permission # Pending
        /\ \E i \in 1..Len(log) : IsPermCall(log[i]) /\ log[i].out # "ok") =>
        /\ ~ret.validate_specific_permission.ok
        /\ ret.validate_specific_permission.kind \in ErrorKinds

\* the arguments name a resource or, at any position, a verb that is not supported
UnsupportedArgs ==
    \/ perm.resource \notin {"pods", "nodes", "services", "namespaces"}
    \/ \E k \in 1..Len(perm.verbs) : perm.verbs[k] \notin {"list", "get"}

\* C18: an unsupported resource or verb is rejected before any network call:
\* with such arguments validate_specific_permission creates no client and
\* issues no list or get, and what it returns is InvalidInput.
C18_UnsupportedRejectedFirst ==
    (pc \in {"perm_client", "perm_verbs", "perm_list", "perm_get_list", "perm_get",
             "perm_returned"} /\ UnsupportedArgs) =>
        /\ \A i \in 1..Len(log) : log[i].op \notin {"client", "api"}
        /\ ret.validate_specific_permission # Pending =>
              ret.validate_specific_permission.kind = "InvalidInput"

\* a list of validate_specific_permission answered Ok with the given first item
PermListed(e, item) ==
    /\ IsPermCall(e) /\ e.verb = "list" /\ e.limit = 1 /\ e.out = "ok" /\ e.item = item

\* the loop of validate_specific_permission is at verb "get" of a supported resource
AtVerbGet ==
    /\ pc = "perm_verbs"
    /\ perm.resource \in {"pods", "nodes", "services", "namespaces"}
    /\ perm.next <= Len(perm.verbs)
    /\ perm.verbs[perm.next] = "get"

\* C19 (state part): every get directly follows a capped list that was
\* answered Ok with a named first item of the same resource and scope; a get
\* answered 403 is the last call and PermissionDenied is returned; an empty
\* list is followed by no get and is never the reason of an error.
GetFollowsList ==
    /\ \A i \in 1..Len(log) :
          (IsPermCall(log[i]) /\ log[i].verb = "get") =>
              /\ i > 1
              /\ PermListed(log[i - 1], "named")
              /\ log[i - 1].res = log[i].res /\ log[i - 1].scope = log[i].scope
              /\ Is403(log[i]) =>
                    /\ i = Len(log)
                    /\ pc = "perm_returned"
                    /\ ret.validate_specific_permission.kind = "PermissionDenied"
    /\ (Len(log) >= 1 /\ PermListed(log[Len(log)], "none") /\ pc = "perm_returned") =>
          ret.validate_specific_permission.kind \in {"Ok", "InvalidInput"}
    /\ (pc = "perm_returned" /\ Len(log) >= 1 /\ PermListed(log[Len(log)], "none")
          /\ perm.verbs[Len(perm.verbs)] = "get" /\ perm.next > Len(perm.verbs)) =>
          ret.validate_specific_permission = Ok

\* C19 (step part): verb "get" first issues the capped list and nothing
\* else; after it a get is issued exactly when the list gave a named first
\* item; when the list gave no items the loop goes on with the next verb
\* and nothing is returned.
GetVerbSteps ==
    /\ AtVerbGet => (pc' = "perm_get_list" /\ log' = log)
    /\ pc = "perm_get_list" =>
          /\ Len(log') = Len(log) + 1
          /\ IsPermCall(log'[Len(log')])
          /\ log'[Len(log')].verb = "list" /\ log'[Len(log')].limit = 1
          /\ pc' = "perm_get" <=> PermListed(log'[Len(log')], "named")
          /\ PermListed(log'[Len(log')], "none") =>
                /\ pc' = "perm_verbs"
                /\ perm'.next = perm.next + 1
                /\ ret' = ret
    /\ pc = "perm_get" =>
          /\ Len(log') = Len(log) + 1
          /\ IsPermCall(log'[Len(log')]) /\ log'[Len(log')].verb = "get"

\* C19: validate_specific_permission with verb "get" first issues a capped
\* list and then a get of the first listed object's name, and returns
\* PermissionDenied if that get is answered 403; when the list returns no
\* items no get is issued and the verb counts as success.
C19_GetAfterList == []GetFollowsList /\ [][GetVerbSteps]_vars

\* C19 witness: verbs get, get: the first list was empty, the second gave a
\* named object whose get was answered 403
C19_Witness ==
    /\ pc = "perm_returned"
    /\ perm.verbs = <<"get", "get">>
    /\ Len(log) = 4
    /\ PermListed(log[2], "none")
    /\ PermListed(log[3], "named")
    /\ Is403(log[4])
    /\ ret.validate_specific_permission.kind = "PermissionDenied"

\* the API calls validate_namespace_exists has issued, in order
NsExistsCalls ==
    SelectSeq(log, LAMBDA e : e.op = "api" /\ e.by = "validate_namespace_exists")

\* C20: validate_namespace_exists issues a single get of the namespace (no
\* list) and returns with its answer: Ok for success, ResourceNotFound for
\* 404, PermissionDenied for 403, the mapped kind for any other error; it
\* never returns Ok when the get failed.
C20_NamespaceExists ==
    /\ Len(NsExistsCalls) <= 1
    /\ \A k \in 1..Len(NsExistsCalls) :
          LET e == NsExistsCalls[k]
              r == ret.validate_namespace_exists
          IN /\ e.verb = "get" /\ e.res = "namespaces" /\ e.scope = ClusterScope
             /\ r # Pending
             /\ r.ok <=> e.out = "ok"
             /\ (e.out = "api" /\ e.code = 404) => r.kind = "ResourceNotFound"
             /\ (e.out = "api" /\ e.code = 403) => r.kind = "PermissionDenied"
             /\ e.out \in {"api", "http"} => r.kind = MappedKind(e)
             /\ e.out # "ok" => r.kind \in ErrorKinds /\ ret.main = r /\ pc = "exited"
    /\ ret.validate_namespace_exists.ok => Len(NsExistsCalls) = 1

\* C20 witness: the get of the namespace was answered 403 and the run exited with 5
C20_Witness ==
    /\ pc = "exited"
    /\ Len(NsExistsCalls) = 1
    /\ Is403(NsExistsCalls[1])
    /\ ret.validate_namespace_exists.kind = "PermissionDenied"
    /\ exit_status = 5

\* C21: API error classification. For every status code of a
\* kube::Error::Api the conversion gives PermissionDenied if and only if the
\* status is 401 or 403, ResourceNotFound if and only if it is 404, and
\* KubernetesConnection for every other status.
C21_ApiErrorClassification ==
    (pc = "classified" /\ log[1].op = "api" /\ log[1].out = "api") =>
        /\ ret.main.kind = "PermissionDenied" <=> log[1].code \in {401, 403}
        /\ ret.main.kind = "ResourceNotFound" <=> log[1].code = 404
        /\ ret.main.kind = "KubernetesConnection" <=> log[1].code \notin {401, 403, 404}
        /\ ~ret.main.ok

\* C21 witness: status 401 was converted to PermissionDenied
C21_Witness ==
    /\ pc = "classified"
    /\ log[1].out = "api"
    /\ log[1].code = 401
    /\ ret.main.kind = "PermissionDenied"

\* C22: transport errors and probe status. Of one connectivity attempt: a
\* transport error that is a timeout gives Timeout, any other transport
\* error (connect or generic) NetworkConnectivity; the attempt succeeds if
\* and only if there is a response with a status 200..299, and a response
\* with any other status gives NetworkConnectivity.
C22_TransportClassification ==
    (pc = "classified" /\ log[1].op = "http") =>
        /\ log[1].out = "timeout" => ret.main.kind = "Timeout"
        /\ log[1].out \in {"connect", "other"} => ret.main.kind = "NetworkConnectivity"
        /\ ret.main.ok <=> (log[1].out = "status" /\ log[1].code \in 200..299)
        /\ (log[1].out = "status" /\ log[1].code \notin 200..299) =>
              ret.main.kind = "NetworkConnectivity" /\ ret.main.code = log[1].code

\* C22 witness: a response with status 302 gave NetworkConnectivity
C22_Witness ==
    /\ pc = "classified"
    /\ log[1].op = "http"
    /\ log[1].out = "status"
    /\ log[1].code = 302
    /\ ret.main.kind = "NetworkConnectivity"

\* C23: every network-bound step has a deadline. A call to the cluster API
\* that gets no answer is abandoned: the run does not stay in it but goes on
\* to its exit, and (but for the pod count of diagnose, whose timeout is only
\* printed) main's result is a Timeout error.
C23_EveryCallHasDeadline ==
    \A i \in 1..Len(log) :
        (log[i].op = "api" /\ log[i].out \in {"none", "timeout"}) =>
            /\ pc = "exited"
            /\ log[i].by # "check_pods_in_namespace" => ret.main.kind = "Timeout"

\* the connectivity tester has been called by test_pod
TesterInvoked ==
    /\ cmd.name = "test-pod"
    /\ \/ pc \in {"conn_loop", "conn_attempt", "conn_sleep"}
       \/ Len(HttpProbes) > 0
       \/ ret.test_connectivity_with_retries # Pending

\* the addresses among the fetched pods' that are well-formed: the dotted
\* quad and the IPv6 address of eight groups
WellFormedIps == {IpV4, IpV6Full}

\* C24: test_pod calls the connectivity tester only for a fetched pod with a
\* status, a pod_ip and a well-formed address. For a pod without status, and
\* for one that passed the phase check without pod_ip, it returns
\* ResourceNotFound; for one that passed the phase check with a malformed
\* address (an octet above 255, IPv6 with `::`) it returns InvalidInput; in
\* each case no HTTP probe is issued.
C24_TesterPreconditions ==
    /\ TesterInvoked =>
          /\ PodFetched
          /\ pod.has_status
          /\ pod.has_pod_ip
          /\ pod.pod_ip \in WellFormedIps
    /\ (PodFetched /\ pc \notin {"tp_status", "tp_ip"}
          /\ (~pod.has_status \/ ~NotRunningPhase)) =>
          IF ~pod.has_status \/ ~pod.has_pod_ip THEN
              /\ pc = "exited"
              /\ ret.test_pod.kind = "ResourceNotFound"
              /\ exit_status = 4
              /\ ~TesterInvoked
          ELSE IF pod.pod_ip \notin WellFormedIps THEN
              /\ pc = "exited"
              /\ ret.test_pod.kind = "InvalidInput"
              /\ exit_status = 2
              /\ ~TesterInvoked
          ELSE TesterInvoked

\* C24 witness: a Running pod whose address is IPv6 in compressed form was refused
C24_Witness ==
    /\ pc = "exited"
    /\ PodFetched
    /\ pod.has_phase /\ pod.phase = "Running"
    /\ pod.pod_ip = IpV6Compressed
    /\ ret.test_pod.kind = "InvalidInput"
    /\ Len(HttpProbes) = 0

\* C25: when test_pod reaches the connectivity stage it runs the tester with
\* a budget of exactly 3 attempts, and what the tester returns is what
\* test_pod returns: Ok for Ok, and the tester's error, kind and all
\* (Timeout stays Timeout, NetworkConnectivity stays NetworkConnectivity).
C25_TestPodReturnsTesterResult ==
    TesterInvoked =>
        /\ max_retries = 3
        /\ Len(HttpProbes) <= 3
        /\ ret.test_pod # Pending <=> ret.test_connectivity_with_retries # Pending
        /\ ret.test_connectivity_with_retries # Pending =>
              /\ ret.test_pod = ret.test_connectivity_with_retries
              /\ ret.test_pod.ok <=> ret.test_connectivity_with_retries.ok
              /\ ret.main = ret.test_pod
              /\ ~ret.test_pod.ok =>
                    /\ Len(HttpProbes) = 3
                    /\ ret.test_pod.kind = ProbeError(HttpProbes[3]).kind

\* C25 witness: three attempts failed, the last by a timeout, and test_pod
\* returned Timeout
C25_Witness ==
    /\ pc = "exited"
    /\ cmd.name = "test-pod"
    /\ Len(HttpProbes) = 3
    /\ HttpProbes[1].out = "connect"
    /\ HttpProbes[3].out = "timeout"
    /\ ret.test_pod.kind = "Timeout"
    /\ exit_status = 4


\* a string of lowercase alphanumerics, '-' and '.', that starts and ends with
\* an alphanumeric and has an alphanumeric on both sides of every '.'
PodNameGrammar(s) ==
    /\ Len(s) \in 1..253
    /\ \A i \in 1..Len(s) : s[i] \in LowerAlnum \cup {"-", "."}
    /\ s[1] \in LowerAlnum
    /\ s[Len(s)] \in LowerAlnum
    /\ \A i \in 2..(Len(s) - 1) :
         s[i] = "." => s[i - 1] \in LowerAlnum /\ s[i + 1] \in LowerAlnum

\* the rejections the specification lists for both name validators
ListedNameFaults(s, limit) ==
    \/ Len(s) = 0
    \/ Len(s) > limit
    \/ \E i \in 1..Len(s) : s[i] \in {"A", "_"}
    \/ s[1] = "-"
    \/ s[Len(s)] = "-"

\* C26: validate_pod_name returns Ok for every string of 1 to 253 characters
\* that matches the dotted-label grammar, and an InvalidInput error for every
\* other string: empty, longer than 253, with an uppercase letter or an
\* underscore, or with a leading or trailing hyphen.
C26_PodNameValidator ==
    (pc = "validated" /\ cmd.name = "validate_pod_name") =>
        /\ PodNameGrammar(cmd.pod) => ret.validate_pod_name = Ok
        /\ ~PodNameGrammar(cmd.pod) =>
             ~ret.validate_pod_name.ok /\ ret.validate_pod_name.kind = "InvalidInput"
        /\ ListedNameFaults(cmd.pod, 253) => ret.validate_pod_name.kind = "InvalidInput"

\* a dotted name of exactly 253 characters was accepted
C26_Witness ==
    /\ pc = "validated"
    /\ cmd.name = "validate_pod_name"
    /\ cmd.pod = Dotted(PodNameMaxLen)
    /\ ret.validate_pod_name = Ok

\* one label: lowercase alphanumerics and '-', alphanumeric at both ends
NamespaceGrammar(s) ==
    /\ Len(s) \in 1..63
    /\ \A i \in 1..Len(s) : s[i] \in LowerAlnum \cup {"-"}
    /\ s[1] \notin {"-"}
    /\ s[Len(s)] \notin {"-"}

\* C27: validate_namespace returns Ok for every string of 1 to 63 characters
\* that matches the label grammar (no dots), and an InvalidInput error for
\* every other string: empty, 64 characters or more, with an uppercase letter,
\* an underscore or a dot, or with a leading or trailing hyphen.
C27_NamespaceValidator ==
    (pc = "validated" /\ cmd.name = "validate_namespace") =>
        /\ NamespaceGrammar(cmd.namespace) => ret.validate_namespace = Ok
        /\ ~NamespaceGrammar(cmd.namespace) =>
             ~ret.validate_namespace.ok /\ ret.validate_namespace.kind = "InvalidInput"
        /\ ( \/ ListedNameFaults(cmd.namespace, 63)
             \/ \E i \in 1..Len(cmd.namespace) : cmd.namespace[i] = "." ) =>
             ret.validate_namespace.kind = "InvalidInput"

\* a namespace of 64 characters was rejected
C27_Witness ==
    /\ pc = "validated"
    /\ cmd.name = "validate_namespace"
    /\ Len(cmd.namespace) = NamespaceMaxLen + 1
    /\ ret.validate_namespace.kind = "InvalidInput"

\* the positions of the separator, with both ends of the string
Bounds(s, sep) == {0, Len(s) + 1} \cup {i \in 1..Len(s) : s[i] = sep}
\* the fields of s: the stretches between neighbouring bounds, as <<from, to>>
Fields(s, sep) ==
    {<<a + 1, b - 1>> : <<a, b>> \in
        {x \in Bounds(s, sep) \X Bounds(s, sep) :
            x[1] < x[2] /\ ~\E c \in Bounds(s, sep) : x[1] < c /\ c < x[2]}}
\* the number a decimal digit stands for
DigitValue(c) == CHOOSE n \in 0..9 : DigitChars[n + 1] = c
\* the number the decimal field s[a..b] stands for, b - a < 3
FieldValue(s, a, b) ==
    IF b = a THEN DigitValue(s[a])
    ELSE IF b = a + 1 THEN 10 * DigitValue(s[a]) + DigitValue(s[b])
    ELSE 100 * DigitValue(s[a]) + 10 * DigitValue(s[a + 1]) + DigitValue(s[b])

\* four decimal fields of one to three digits, each of value 0..255
IsDottedQuad(s) ==
    /\ Cardinality(Fields(s, ".")) = 4
    /\ \A f \in Fields(s, ".") :
         /\ f[2] - f[1] \in 0..2
         /\ \A i \in f[1]..f[2] : s[i] \in Digits
         /\ FieldValue(s, f[1], f[2]) <= 255

\* eight groups of one to four hexadecimal digits
IsFullIpv6(s) ==
    /\ Cardinality(Fields(s, ":")) = 8
    /\ \A f \in Fields(s, ":") :
         /\ f[2] - f[1] \in 0..3
         /\ \A i \in f[1]..f[2] : s[i] \in HexDigits

\* C28: validate_pod_ip returns Ok exactly for IPv4 dotted quads whose four
\* octets are each in 0..255 and for IPv6 addresses written as exactly eight
\* colon-separated groups of one to four hexadecimal digits; everything else
\* (empty, an octet above 255, three or five octets, non-numeric text, the
\* compressed IPv6 forms) is an InvalidInput error.
C28_PodIpValidator ==
    (pc = "validated" /\ cmd.name = "validate_pod_ip") =>
        IF IsDottedQuad(pod.pod_ip) \/ IsFullIpv6(pod.pod_ip)
            THEN ret.main = Ok
            ELSE ~ret.main.ok /\ ret.main.kind = "InvalidInput"

\* a quad with an octet of 256 was rejected
C28_Witness ==
    /\ pc = "validated"
    /\ cmd.name = "validate_pod_ip"
    /\ pod.pod_ip = JoinWith(<<DecStr(256), DecStr(0), DecStr(0), DecStr(7)>>, ".")
    /\ ret.main.kind = "InvalidInput"

\* the resource is one of pods, nodes, services, namespaces and every verb is
\* get or list
SupportedArgs ==
    /\ perm.resource \in {"pods", "nodes", "services", "namespaces"}
    /\ \A i \in 1..Len(perm.verbs) : perm.verbs[i] \in {"get", "list"}

\* C29: for every resource in {pods, nodes, services, namespaces} and every
\* verb in {get, list}, validate_specific_permission never returns an
\* InvalidInput error, whatever the cluster answers.
C29_SupportedNeverInvalidInput ==
    SupportedArgs =>
        /\ ret.validate_specific_permission.kind # "InvalidInput"
        /\ pc = "perm_returned" =>
             ret.validate_specific_permission.kind
                \in {"Ok", "PermissionDenied", "KubernetesConnection"}

\* a get and a list on a supported resource went through with the cluster
\* answering an error to one of the calls
C29_Witness ==
    /\ pc = "perm_returned"
    /\ SupportedArgs
    /\ perm.verbs = <<"get", "list">>
    /\ \E i \in 1..Len(log) : log[i].op = "api" /\ log[i].out # "ok"
    /\ ret.validate_specific_permission.kind # "Pending"

\* the API calls of the log that failed
FailedCalls == {i \in 1..Len(log) : log[i].op = "api" /\ log[i].out # "ok"}
\* the call at j is the operation of the call at i, issued again
Reissued(i, j) ==
    /\ i < j
    /\ log[j].op = "api"
    /\ log[j].by = log[i].by
    /\ log[j].res = log[i].res
    /\ log[j].verb = log[i].verb
\* C30: only the connectivity probe is retried: after a permission probe, the
\* namespace-existence get, a node listing, a pod listing or the pod fetch has
\* failed, that same operation is never issued again; the HTTP probe is issued
\* at most max_attempts times (3 in test-pod).
C30_OnlyProbeRetried ==
    /\ \A i \in FailedCalls : \A j \in 1..Len(log) : ~Reissued(i, j)
    /\ Len(HttpProbes) <= TestPodAttempts
    /\ HttpProbes # <<>> => Len(HttpProbes) <= max_retries

\* a run in which an API call failed and was left at that, and the HTTP probe
\* failed and was issued again up to its third attempt
C30_Witness ==
    /\ pc = "exited"
    /\ FailedCalls # {}
    /\ Len(HttpProbes) = TestPodAttempts
    /\ \E i \in 1..Len(HttpProbes) : HttpProbes[i].out # "status"

\* the calls of a log that go over the network: client creation, API calls,
\* HTTP probes
NetworkOps(l) == {i \in 1..Len(l) : l[i].op \in {"client", "api", "http"}}
\* the calls that were started and have neither completed nor been abandoned
InFlight == {i \in NetworkOps(log) : log[i].out = "none"}
\* a step starts at most one call, after everything already in the log, and
\* none while a call is in flight
StartsOneCall ==
    /\ Len(log') >= Len(log)
    /\ SubSeq(log', 1, Len(log)) = log
    /\ Cardinality(NetworkOps(log')) <= Cardinality(NetworkOps(log)) + 1
    /\ InFlight # {} => NetworkOps(log') = NetworkOps(log)

\* C31: a run is strictly sequential: at every point at most one cluster-API
\* call or HTTP probe is in flight, and a call is started only after the one
\* before it has completed or been abandoned at its deadline.
C31_StrictlySequential ==
    /\ [](Cardinality(InFlight) <= 1)
    /\ [][StartsOneCall]_vars

\* the run waits in one unanswered call that it started after two others had
\* completed
C31_Witness ==
    /\ pc = "hung"
    /\ Cardinality(InFlight) = 1
    /\ Cardinality(NetworkOps(log)) >= 3
    /\ InFlight = {Len(log)}

\* the operations issued against the control-plane API so far
ApiCalls == {i \in 1..Len(log) : log[i].op = "api"}

\* C32: every operation issued against the cluster control-plane API is a list
\* or a get on one of Node, Pod, Service, Endpoints, Namespace; no run issues a
\* create, update, patch or delete.
C32_ReadOnly ==
    \A i \in ApiCalls :
        /\ log[i].verb \in {"list", "get"}
        /\ log[i].res \in {"nodes", "pods", "services", "endpoints", "namespaces"}

\* a test-pod run has ended after the lists of the prober, the get of a listed
\* pod and the fetch of the pod under test
C32_Witness ==
    /\ pc = "exited"
    /\ cmd.name = "test-pod"
    /\ \E i \in ApiCalls : log[i].by = "validate_pods_access" /\ log[i].verb = "get"
    /\ \E i \in ApiCalls : log[i].by = "test_pod" /\ log[i].verb = "get"
    /\ \E i \in ApiCalls : log[i].res = "endpoints" /\ log[i].verb = "list"

\* the calls of diagnose's step 1 and step 2 that failed or whose deadline
\* elapsed
FailedSteps12 ==
    {i \in ApiCalls : /\ log[i].by \in {"detect_cni", "get_cluster_nodes"}
                      /\ log[i].out # "ok"}
\* what the report shows
Reported(what) ==
    \E i \in 1..Len(log) : log[i].op = "print" /\ log[i].by = "diagnose" /\ log[i].res = what

\* C33: in diagnose a deadline elapse or list error in step 1 or step 2 is
\* fatal: the run returns that error (a Timeout for an elapsed deadline) at
\* once, no later step is started, and no CNI name or node count from the
\* abandoned call is reported.
C33_Steps12Fatal ==
    \A i \in FailedSteps12 :
        /\ i = Len(log)
        /\ pc = "exited"
        /\ ret.main = ret.diagnose
        /\ ret.diagnose =
             IF log[i].out = "timeout"
             THEN Err("Timeout", IF log[i].by = "detect_cni"
                                 THEN "CNI detection timed out after 30 seconds"
                                 ELSE "Node listing timed out after 15 seconds")
             ELSE FromKubeError([t |-> log[i].out, code |-> log[i].code])
        /\ exit_status = exit_code(ret.diagnose.kind)
        /\ log[i].by = "detect_cni" => cni_type = "" /\ ~Reported("cni")
        /\ log[i].by = "get_cluster_nodes" =>
             node_count = -1 /\ ~Reported("nodes") /\ ~Reported("no_nodes")

\* step 2's deadline elapsed after step 1 had reported a CNI: the run ended
\* with the Timeout exit status
C33_Witness ==
    /\ pc = "exited"
    /\ \E i \in FailedSteps12 : log[i].by = "get_cluster_nodes" /\ log[i].out = "timeout"
    /\ Reported("cni")
    /\ exit_status = exit_code("Timeout")

\* the priority list of markers with the name each stands for
MarkerPriority ==
    <<[markers |-> {S_calico, S_projectcalico}, name |-> "Calico"],
      [markers |-> {S_flannel}, name |-> "Flannel"],
      [markers |-> {S_weave}, name |-> "Weave Net"],
      [markers |-> {S_cilium}, name |-> "Cilium"]>>
\* the ranks of the priority list a node's annotation keys match
MatchedRanks(node) ==
    {r \in 1..Len(MarkerPriority) :
        \E k \in node.annotation_keys, m \in MarkerPriority[r].markers : Contains(k, m)}
\* the node at i is the first of the list with status and node_info, and its
\* annotation keys hold a marker
FirstReportingMarked(i) ==
    /\ nodes_list[i].has_status /\ nodes_list[i].has_node_info
    /\ \A j \in 1..(i - 1) : ~(nodes_list[j].has_status /\ nodes_list[j].has_node_info)
    /\ HasMarker(nodes_list[i])

\* C34: within one node the markers are tested in the order calico or
\* projectcalico, flannel, weave, cilium: a node whose annotation keys contain
\* several markers is classified by the one of highest priority.
C34_MarkerPriority ==
    pc = "cni_returned" =>
        \A i \in 1..Len(nodes_list) :
            FirstReportingMarked(i) =>
                \E r \in MatchedRanks(nodes_list[i]) :
                    /\ \A q \in MatchedRanks(nodes_list[i]) : r <= q
                    /\ cni_type = MarkerPriority[r].name

\* a node annotated for both cilium and calico was classified as Calico
C34_Witness ==
    /\ pc = "cni_returned"
    /\ Len(nodes_list) >= 1
    /\ FirstReportingMarked(1)
    /\ nodes_list[1].annotation_keys = {KeyCilium, KeyCalico}
    /\ cni_type = "Calico"

\* the node has both a status and a node_info
Reports(node) == node.has_status /\ node.has_node_info
\* the list without the nodes that lack status or node_info
ReportingNodes == SelectSeq(nodes_list, Reports)

\* C37: detect_cni considers a node's annotations and runtime string only when
\* the node has both a status and a node_info: a node lacking either
\* contributes nothing, even with a CNI marker in its annotation keys. The
\* result is that of the list without such nodes ("Unknown CNI" if none is
\* left), so a list whose only annotated node has no status gives "Unknown CNI"
\* or a later node's classification.
C37_NodesWithoutInfoIgnored ==
    (pc = "cni_returned" /\ Len(nodes_list) > 0) =>
        /\ cni_type = IF Len(ReportingNodes) = 0 THEN "Unknown CNI"
                      ELSE DetectCniOf(ReportingNodes)
        /\ (\A i \in 1..Len(nodes_list) :
                Reports(nodes_list[i]) =>
                    ~HasMarker(nodes_list[i]) /\ ~HasRuntimeSignal(nodes_list[i]))
              => cni_type = "Unknown CNI"

\* the one listed node has calico annotations and no status: Unknown CNI
C37_Witness ==
    /\ pc = "cni_returned"
    /\ Len(nodes_list) = 1
    /\ ~nodes_list[1].has_status
    /\ nodes_list[1].annotation_keys = {KeyCalico}
    /\ cni_type = "Unknown CNI"

\* the pod fetches of test_pod that failed or whose deadline elapsed
FailedFetches == {i \in ApiCalls : log[i].by = "test_pod" /\ log[i].out # "ok"}
\* the kind test_pod returns for a fetch that met the outcome of the call at i
FetchErrorKind(i) ==
    IF log[i].out = "timeout" THEN "Timeout"
    ELSE IF log[i].out = "api" /\ log[i].code = 404 THEN "ResourceNotFound"
    ELSE IF log[i].out = "api" /\ log[i].code \in {401, 403} THEN "PermissionDenied"
    ELSE IF log[i].out = "api" THEN "KubernetesConnection"
    ELSE FromKubeError([t |-> log[i].out, code |-> log[i].code]).kind

\* C35: test_pod's pod fetch maps its outcome before any other check: a 404 is
\* ResourceNotFound, the deadline elapsing after 10 s is Timeout, any other API
\* error is its mapped kind (401/403 PermissionDenied, else
\* KubernetesConnection), and in each of these cases neither the phase and IP
\* checks nor the connectivity tester run.
C35_FetchOutcomeMapped ==
    \A i \in FailedFetches :
        /\ pc = "exited"
        /\ i = Len(log)
        /\ ~ret.test_pod.ok
        /\ ret.test_pod.kind = FetchErrorKind(i)
        /\ ret.main = ret.test_pod
        /\ exit_status = exit_code(FetchErrorKind(i))
        /\ pod = NoPod
        /\ ~TesterInvoked

\* the fetch ran into its deadline and the run ended with the Timeout status
C35_Witness ==
    /\ pc = "exited"
    /\ \E i \in FailedFetches : log[i].out = "timeout"
    /\ ret.test_pod.kind = "Timeout"
    /\ exit_status = exit_code("Timeout")

\* the suspends of the tester so far
Sleeps == SelectSeq(log, LAMBDA e : e.op = "sleep")
\* the tester was called with a budget of at least one attempt, as test_pod
\* calls it
CalledWithBudget == cmd.name = "test-pod" \/ max_retries >= 1
\* the unreachable!() after the loop is not executed
NeverPanics == pc # "panicked"
\* the tester has returned Ok or Err
TesterReturned ==
    /\ pc = "tester_returned"
    /\ ret.test_connectivity_with_retries # Pending
    /\ \/ ret.test_connectivity_with_retries.ok
       \/ ret.test_connectivity_with_retries.kind \in ErrorKinds

\* C36: test_connectivity_with_retries terminates for every max_retries >= 1
\* after at most max_retries probes and max_retries - 1 suspends, returning Ok
\* or Err, and the unreachable!() after its loop is not executed: it is
\* reached only with max_retries = 0, which the one caller (3) never passes.
C36_TesterTerminates ==
    /\ [](CalledWithBudget =>
            /\ NeverPanics
            /\ Len(HttpProbes) <= max_retries
            /\ Len(Sleeps) <= max_retries - 1)
    /\ [](max_retries >= 1 => <>TesterReturned)
    /\ [](pc = "panicked" => max_retries = 0 /\ Len(HttpProbes) = 0)

\* the largest budget was used up: as many probes as the budget, one suspend
\* fewer, and the last error returned
C36_Witness ==
    /\ TesterReturned
    /\ max_retries = MaxRetries
    /\ Len(HttpProbes) = max_retries
    /\ Len(Sleeps) = max_retries - 1
    /\ ~ret.test_connectivity_with_retries.ok

=============================================================================
